---- MODULE Spec2Model ----
(***************************************************************************)
(* A model of the lattigo homomorphic-encryption engine: the RNS ring      *)
(* layer (ring), the Scheme-A evaluator (ckks), the Scheme-I evaluator     *)
(* (bfv) and the collective key switch (dbfv).                             *)
(*                                                                         *)
(* Index conventions.  Go slices are 0-based; TLA+ sequences are 1-based.  *)
(*   - the list of components of an element (el.value) and the list of     *)
(*     rows of a polynomial (Poly.Coeffs) are sequences: component c of    *)
(*     the code is value[c+1], row i of the code is Coeffs[i+1];           *)
(*   - a row (Poly.Coeffs[i]) is a sequence too: coefficient j is a[j+1].  *)
(* uint64 values that stay far below 2^64 are plain naturals; the places   *)
(* where the code's unsigned arithmetic wraps are modelled by Wrap.        *)
(***************************************************************************)
EXTENDS Integers, Sequences, FiniteSets, TLC

\* ------------------------------------------------------------------------
\* Parameters of the modelled contexts
\* ------------------------------------------------------------------------

\* Context.N: the ring degree (a power of two).
N == 8

\* Context.Modulus / ckkscontext.moduli: NTT primes, each = 1 mod 2N.
Moduli == <<257, 97, 17>>

\* ckkscontext.levels: the number of moduli of the chain.
Levels == Len(Moduli)

\* ckkscontext.scalechain: the bit size of each modulus of the chain.
ScaleChain == <<9, 7, 5>>

\* ckkscontext.logScale: the base scale.
LogScale == 7

\* The unsigned 64-bit word: uint64 arithmetic is arithmetic modulo Word.
\* TLC's integers are 32 bits wide, so the model keeps the wrap-around and
\* scales the width down; every index, level and count of the model is far
\* below it, so a wrapped value is out of every range exactly as in the code.
Word == 2 ^ 20

Wrap(x) == x % Word

\* The sequence <<E(1), .., E(n)>>.
Table(n, E(_)) == SubSeq([k \in 1..n |-> E(k)], 1, n)

\* A row of N coefficients: the sequence <<E(0), .., E(N-1)>>; coefficient j
\* of a row a (a[j] in the code) is a[j + 1].
MakeRow(E(_)) == SubSeq([k \in 1..N |-> E(k - 1)], 1, N)

Max2(a, b) == IF a >= b THEN a ELSE b

Min2(a, b) == IF a <= b THEN a ELSE b

Min3(a, b, c) == Min2(a, Min2(b, c))

\* ------------------------------------------------------------------------
\* Modular arithmetic primitives (ring, spec 4.1)
\* ------------------------------------------------------------------------

\* ModExp(base, exp, q) by square-and-multiply.
ModExp(b, e, q) ==
    LET pow[k \in 0..e] ==
            IF k = 0 THEN 1 % q
            ELSE LET h == pow[k \div 2]
                     s == (h * h) % q
                 IN  IF k % 2 = 1 THEN (s * (b % q)) % q ELSE s
    IN  pow[e]

\* primitiveRoot(q): the smallest generator of the multiplicative group.
IsGenerator(g, q) == \A d \in 1..(q - 2) : ModExp(g, d, q) # 1

PrimitiveRoot(q) == CHOOSE g \in 2..(q - 1) :
    IsGenerator(g, q) /\ \A h \in 2..(g - 1) : ~IsGenerator(h, q)

\* bits.Len64(n): the number of bits of n.
BitLen(n) ==
    LET len[k \in 0..n] == IF k = 0 THEN 0 ELSE 1 + len[k \div 2]
    IN  len[n]

\* bitReverse64(index, bitLen): the bitLen low bits of index, reversed.
BitReverse(x, bits) ==
    LET rev[b \in 0..bits] ==
            IF b = 0 THEN 0
            ELSE rev[b - 1] + ((x \div (2 ^ (b - 1))) % 2) * (2 ^ (bits - b))
    IN  rev[bits]

\* The product of the moduli 0..l (context.ModulusBigint of a context of
\* l + 1 moduli).
ModulusBigint(l) ==
    LET prod[i \in 0..(l + 1)] == IF i = 0 THEN 1 ELSE prod[i - 1] * Moduli[i]
    IN  prod[l + 1]

\* The Montgomery radix R = 2^64 modulo q, and x * R mod q.
MontR(q) == ModExp(2, 64, q)

MontForm(x, q) == ((x % q) * MontR(q)) % q

\* GenNTTParams: psi = g^((q-1)/2N) for the primitive root g of q, and psi^-1.
PsiOf(q) == ModExp(PrimitiveRoot(q), (q - 1) \div (2 * N), q)

PsiInvOf(q) == ModExp(PrimitiveRoot(q), (q - 1) - ((q - 1) \div (2 * N)), q)

\* The tables a context derives from its moduli when it is built (row i of
\* a table belongs to modulus i; entry k of the code is entry k + 1 here):
\*   montR, montRInv  R and R^-1 mod q_i, the constants of the Montgomery
\*                    form (the code's bredParams / mredParams);
\*   nttPsi, nttPsiInv  psi^bitrev(k) and psi^-bitrev(k) in Montgomery form;
\*   nttNInv          N^-1 mod q_i in Montgomery form;
\*   rescalParams     [top][i] = q_top^-1 mod q_i in Montgomery form (ckks);
\*   crtInverse       [n][i] = (q_1..q_n / q_i)^-1 mod q_i (basis extension).
GenNTTParams ==
    [montR |-> Table(Levels, LAMBDA i : MontR(Moduli[i])),
     montRInv |-> Table(Levels, LAMBDA i : ModExp(MontR(Moduli[i]), Moduli[i] - 2, Moduli[i])),
     nttPsi |-> Table(Levels, LAMBDA i : Table(N, LAMBDA k :
         MontForm(ModExp(PsiOf(Moduli[i]), BitReverse(k - 1, BitLen(N) - 1), Moduli[i]),
                  Moduli[i]))),
     nttPsiInv |-> Table(Levels, LAMBDA i : Table(N, LAMBDA k :
         MontForm(ModExp(PsiInvOf(Moduli[i]), BitReverse(k - 1, BitLen(N) - 1), Moduli[i]),
                  Moduli[i]))),
     nttNInv |-> Table(Levels, LAMBDA i :
         MontForm(ModExp(N, Moduli[i] - 2, Moduli[i]), Moduli[i])),
     rescalParams |-> Table(Levels, LAMBDA top : Table(top - 1, LAMBDA i :
         MontForm(ModExp(Moduli[top], Moduli[i] - 2, Moduli[i]), Moduli[i]))),
     crtInverse |-> Table(Levels, LAMBDA n : Table(n, LAMBDA i :
         ModExp((ModulusBigint(n - 1) \div Moduli[i]) % Moduli[i], Moduli[i] - 2,
                Moduli[i])))]

\* The state of the program: the tables of the ring contexts (context), the
\* evaluator's scheme and the elements it works on (scheme, mem), the
\* elements before and the outcome of the last call (pre, last), the number
\* of calls made (calls), and the key-switching loop and the collective
\* key switch run step by step (ks, cks).
VARIABLES context, scheme, mem, pre, last, calls, ks, cks

vars == <<context, scheme, mem, pre, last, calls, ks, cks>>

\* The index of modulus q in the chain.
ModulusIndex(q) == CHOOSE i \in 1..Levels : Moduli[i] = q

\* MForm(x, q) = x * R mod q.
MForm(x, q) == ((x % q) * context.montR[ModulusIndex(q)]) % q

\* MRed(x, y, q) = x * y * R^-1 mod q, in [0, q).
MRed(x, y, q) == ((((x % q) * (y % q)) % q) * context.montRInv[ModulusIndex(q)]) % q

\* MRedConstant(x, y, q) = x * y * R^-1 mod q without the final conditional
\* subtraction: for operands whose product fits one word the code returns
\* q - H with H in [0, q), i.e. the residue with 0 represented as q.
MRedConstant(x, y, q) ==
    LET m == MRed(x, y, q) IN IF m = 0 THEN q ELSE m

\* BRedAdd(x, q) = x mod q for a single word x.
BRedAdd(x, q) == x % q

\* CRed(x, q): one conditional subtraction.
CRed(x, q) == IF x >= q THEN x - q ELSE x

\* ------------------------------------------------------------------------
\* NTT (ring/ntt.go)
\* ------------------------------------------------------------------------

\* Butterfly: X, Y = U + V*Psi, U - V*Psi with lazy reduction.
Butterfly(U, V, Psi, Q) ==
    LET U1 == IF U > 2 * Q THEN U - 2 * Q ELSE U
        V1 == MRedConstant(V, Psi, Q)
    IN  <<U1 + V1, U1 + 2 * Q - V1>>

\* A variant of InvButterfly that leaves out the product by Psi.
InvButterflyNoPsi(U, V, Psi, Q) ==
    LET X == U + V
    IN  <<IF X > 2 * Q THEN X - 2 * Q ELSE X, U + 2 * Q - V>>

\* InvButterfly: X, Y = U + V, (U - V) * Psi with lazy reduction.
InvButterfly(U, V, Psi, Q) ==
    LET X == U + V
    IN  <<IF X > 2 * Q THEN X - 2 * Q ELSE X, MRedConstant(U + 2 * Q - V, Psi, Q)>>

\* One round of forward butterflies on row x: m blocks of width 2t,
\* t = N/(2m), block i using F = nttPsi[x][m+i].
NTTRound(a, m, x) ==
    LET t == N \div (2 * m)
    IN  MakeRow(LAMBDA j :
            IF j % (2 * t) < t
            THEN Butterfly(a[j + 1], a[j + t + 1],
                           context.nttPsi[x][m + (j \div (2 * t)) + 1], Moduli[x])[1]
            ELSE Butterfly(a[j - t + 1], a[j + 1],
                           context.nttPsi[x][m + (j \div (2 * t)) + 1], Moduli[x])[2])

RECURSIVE NTTRounds(_, _, _)
NTTRounds(a, m, x) ==
    IF m >= N THEN a ELSE NTTRounds(NTTRound(a, m, x), 2 * m, x)

\* One round of inverse butterflies on row x: h blocks of width 2t,
\* t = N/(2h), block i using F = nttPsiInv[x][h+i].
InvNTTRound(a, h, x) ==
    LET t == N \div (2 * h)
    IN  MakeRow(LAMBDA j :
            IF j % (2 * t) < t
            THEN InvButterfly(a[j + 1], a[j + t + 1],
                              context.nttPsiInv[x][h + (j \div (2 * t)) + 1], Moduli[x])[1]
            ELSE InvButterfly(a[j - t + 1], a[j + 1],
                              context.nttPsiInv[x][h + (j \div (2 * t)) + 1], Moduli[x])[2])

RECURSIVE InvNTTRounds(_, _, _)
InvNTTRounds(a, h, x) ==
    IF h < 1 THEN a ELSE InvNTTRounds(InvNTTRound(a, h, x), h \div 2, x)

\* ------------------------------------------------------------------------
\* Row-wise polynomial operations (ring, spec 4.4)
\* Each takes the rows a, b of the inputs, the row o of the receiver before
\* the operation, and the modulus index x, and gives the receiver's new row.
\* ------------------------------------------------------------------------

AddRow(a, b, o, x) == MakeRow(LAMBDA j : CRed(a[j + 1] + b[j + 1], Moduli[x]))

AddNoModRow(a, b, o, x) == MakeRow(LAMBDA j : a[j + 1] + b[j + 1])

SubRow(a, b, o, x) ==
    MakeRow(LAMBDA j : CRed(Wrap((a[j + 1] + Moduli[x]) - b[j + 1]), Moduli[x]))

SubNoModRow(a, b, o, x) == MakeRow(LAMBDA j : Wrap((a[j + 1] + Moduli[x]) - b[j + 1]))

\* Neg: the canonical representative of -a.
NegRow(a, b, o, x) == MakeRow(LAMBDA j : (Moduli[x] - (a[j + 1] % Moduli[x])) % Moduli[x])

\* Reduce: canonicalize to [0, q).
ReduceRow(a, b, o, x) == MakeRow(LAMBDA j : BRedAdd(a[j + 1], Moduli[x]))

CopyRow(a, b, o, x) == a

ZeroRow == MakeRow(LAMBDA j : 0)

MFormRow(a, b, o, x) == MakeRow(LAMBDA j : MForm(a[j + 1], Moduli[x]))

MulCoeffsMontgomeryRow(a, b, o, x) == MakeRow(LAMBDA j : MRed(a[j + 1], b[j + 1], Moduli[x]))

MulCoeffsMontgomeryAndAddRow(a, b, o, x) ==
    MakeRow(LAMBDA j : CRed(o[j + 1] + MRed(a[j + 1], b[j + 1], Moduli[x]), Moduli[x]))

MulCoeffsMontgomeryAndAddNoModRow(a, b, o, x) ==
    MakeRow(LAMBDA j : o[j + 1] + MRed(a[j + 1], b[j + 1], Moduli[x]))

\* MulScalar by a constant in Montgomery form.
MulScalarMontgomeryRow(a, scalar, x) == MakeRow(LAMBDA j : MRed(a[j + 1], scalar, Moduli[x]))

\* NTT of row x: the rounds m = 1, 2, .., N/2, then an exact reduction.
NTTRow(a, b, o, x) == ReduceRow(NTTRounds(a, 1, x), b, o, x)

\* InvNTT of row x: the rounds h = N/2, .., 2, 1, then the product by N^-1.
InvNTTRow(a, b, o, x) ==
    MulScalarMontgomeryRow(InvNTTRounds(a, N \div 2, x), context.nttNInv[x], x)

\* ------------------------------------------------------------------------
\* Memory: the elements the evaluator works on
\* ------------------------------------------------------------------------

\* The elements of a run: slot 0 is the evaluator's own scratch element
\* (ctxpool), slots 1..NSlots are the caller's ciphertexts and plaintexts.
\* Two operands are the same Go pointer iff they are the same slot.
NSlots == 3

POOL == 0

Slots == 1..NSlots

\* The evaluator's polynomial pool (ckks ringpool[0..5], bfv polypool[0..3])
\* is kept as the components of one more element, in slot RING.  The bfv
\* evaluator's ctxpool[0], ctxpool[1], ctxpool[2] are POOL, POOL1, POOL2.
RING == NSlots + 1

POOL1 == NSlots + 2

POOL2 == NSlots + 3

\* A nil interface value, and a nil pointer wrapped in an interface.
NIL == -1

TYPEDNIL == -2

\* The state a handler threads through its statements: the memory and the
\* outcome so far ("" while running; an error text; "panic").
Running(S) == S.err = ""

Fail(S, e) == IF Running(S) THEN [S EXCEPT !.err = e] ELSE S

\* el.Degree(), el.Level(): uint64(len - 1).
Degree(el) == Wrap(Len(el.value) - 1)

Level(el) == Wrap(Len(el.value[1]) - 1)

\* A polynomial reference: component c (0-based) of the element in slot s.
Ref(s, c) == [s |-> s, c |-> c]

ValidRef(S, r) == r.c + 1 <= Len(S.mem[r.s].value)

Poly(S, r) == S.mem[r.s].value[r.c + 1]

SetPoly(S, r, p) == [S EXCEPT !.mem[r.s].value[r.c + 1] = p]

\* A ring operation of a context of nr moduli on the polynomials pa, pb
\* (values) and the receiver ro (a reference): rows 0..nr-1 of the receiver
\* are rewritten, its other rows are left alone.  Indexing a row or a
\* component that does not exist is a Go run-time panic.
RingApplyP(S, nr, pa, pb, ro, Op(_, _, _, _)) ==
    IF ~Running(S) THEN S
    ELSE IF ~ValidRef(S, ro) THEN Fail(S, "panic")
    ELSE IF Len(pa) < nr \/ Len(pb) < nr \/ Len(Poly(S, ro)) < nr THEN Fail(S, "panic")
    ELSE SetPoly(S, ro, Table(Len(Poly(S, ro)), LAMBDA i :
             IF i <= nr THEN Op(pa[i], pb[i], Poly(S, ro)[i], i) ELSE Poly(S, ro)[i]))

\* The same with the inputs given by reference.
RingApply(S, nr, ra, rb, ro, Op(_, _, _, _)) ==
    IF ~Running(S) THEN S
    ELSE IF ~(ValidRef(S, ra) /\ ValidRef(S, rb)) THEN Fail(S, "panic")
    ELSE RingApplyP(S, nr, Poly(S, ra), Poly(S, rb), ro, Op)

\* for i := lo; i < hi; i++ { S = Body(S, i) }: the iterations lo..hi-1 are
\* the iterations lo..mid-1 followed by the iterations mid..hi-1.  (A body
\* does nothing once the run has failed.)
ForRange(S, lo, hi, Body(_, _)) ==
    LET RECURSIVE Run(_, _, _)
        Run(T, a, b) ==
            IF ~Running(T) \/ a >= b THEN T
            ELSE IF b - a = 1 THEN Body(T, a)
            ELSE Run(Run(T, a, (a + b) \div 2), (a + b) \div 2, b)
    IN  Run(S, lo, hi)

\* ------------------------------------------------------------------------
\* Scheme-A elements (ckks: ckksElement, Evaluator)
\* ------------------------------------------------------------------------

\* contextLevel[l] binds the moduli 0..l: it has l + 1 rows.  Indexing
\* contextLevel beyond the chain is a run-time panic.
HasContext(l) == l < Levels

\* context.NewPoly() of contextLevel[l].
NewPoly(l) == Table(l + 1, LAMBDA i : ZeroRow)

\* ring.Int.DivRound: the quotient rounded to the nearest integer.
DivRound(a, b) == (a + (b \div 2)) \div b

\* ring MulByPow2 on a row: the product by 2^pow2 modulo q.
MulByPow2Row(a, pow2, x) ==
    MakeRow(LAMBDA j : ((a[j + 1] % Moduli[x]) * ModExp(2, pow2, Moduli[x])) % Moduli[x])

\* Poly.Copy: every row of the source is copied onto the receiver.
PolyCopy(S, rsrc, rdst) ==
    IF ~Running(S) THEN S
    ELSE IF ~ValidRef(S, rsrc) THEN Fail(S, "panic")
    ELSE RingApply(S, Len(Poly(S, rsrc)), rsrc, rsrc, rdst, CopyRow)

\* el.Resize(degree): truncate the components, or append new polynomials of
\* contextLevel[el.Level()].
Resize(S, s, degree) ==
    IF ~Running(S) THEN S
    ELSE IF Degree(S.mem[s]) > degree
    THEN [S EXCEPT !.mem[s].value = SubSeq(S.mem[s].value, 1, degree + 1)]
    ELSE IF Degree(S.mem[s]) < degree
    THEN IF ~HasContext(Level(S.mem[s])) THEN Fail(S, "panic")
         ELSE [S EXCEPT !.mem[s].value = Table(degree + 1, LAMBDA i :
                   IF i <= Len(S.mem[s].value) THEN S.mem[s].value[i]
                   ELSE NewPoly(Level(S.mem[s])))]
    ELSE S

\* el.CopyParams(src).
CopyParams(S, sdst, ssrc) ==
    IF ~Running(S) THEN S
    ELSE [S EXCEPT !.mem[sdst].currentModulus = S.mem[ssrc].currentModulus,
                   !.mem[sdst].scale = S.mem[ssrc].scale,
                   !.mem[sdst].isNTT = S.mem[ssrc].isNTT]

\* el.Copy(src): nothing when both are the same element; else each component
\* of src is copied on the same component of el, then the parameters.
ElementCopy(S, sdst, ssrc) ==
    IF ~Running(S) \/ sdst = ssrc THEN S
    ELSE CopyParams(ForRange(S, 0, Len(S.mem[ssrc].value), LAMBDA T, i :
                        PolyCopy(T, Ref(ssrc, i), Ref(sdst, i))),
                    sdst, ssrc)

\* A variant of DropLevel that drops nothing.
DropLevelNothing(S, s, levels) == S

\* Evaluator.DropLevel(ct0, levels).  The slice expression Coeffs[:level+1-levels]
\* and the index moduli[level-i] are computed in uint64: with levels beyond
\* level + 1 one of them is out of range and the call panics.
DropLevel(S, s, levels) ==
    IF ~Running(S) THEN S
    ELSE LET el == S.mem[s]
             level == Level(el)
             newLen == Wrap(level + 1 - levels)
             cm[i \in 0..levels] ==
                 IF i = 0 THEN el.currentModulus
                 ELSE DivRound(cm[i - 1], Moduli[level - (i - 1) + 1])
         IN  IF level = 0 THEN Fail(S, "cannot drop level -> ciphertext already at level 0")
             ELSE IF newLen > Len(el.value[1]) THEN Fail(S, "panic")
             ELSE IF levels > 0 /\ ~(levels <= level + 1 /\ HasContext(level))
             THEN Fail(S, "panic")
             ELSE [S EXCEPT !.mem[s].value = Table(Len(el.value), LAMBDA i :
                                                  SubSeq(el.value[i], 1, newLen)),
                            !.mem[s].currentModulus = cm[levels]]

\* Evaluator.MulByPow2(ct0, pow2, ctOut); ctOut may be a nil element.
MulByPow2(S, s0, pow2, sOut) ==
    IF ~Running(S) THEN S
    ELSE IF sOut = NIL THEN Fail(S, "panic")
    ELSE IF ~HasContext(Min2(Level(S.mem[s0]), Level(S.mem[sOut]))) THEN Fail(S, "panic")
    ELSE ForRange(S, 0, Len(S.mem[sOut].value), LAMBDA T, i :
             RingApply(T, Min2(Level(S.mem[s0]), Level(S.mem[sOut])) + 1,
                       Ref(s0, i), Ref(s0, i), Ref(sOut, i),
                       LAMBDA a, b, o, x : MulByPow2Row(a, pow2, x)))

\* A variant of getElemAndCheckBinary that also refuses a receiver whose
\* degree is exactly the minimum (the comparison <= in place of <).
getElemAndCheckBinaryStrict(S, op0, op1, opOut, opOutMinDegree) ==
    IF ~Running(S) THEN S
    ELSE IF op0 = NIL \/ op1 = NIL \/ opOut = NIL THEN Fail(S, "operands cannot be nil")
    ELSE IF op0 = TYPEDNIL \/ op1 = TYPEDNIL THEN Fail(S, "panic")
    ELSE IF Wrap(Degree(S.mem[op0]) + Degree(S.mem[op1])) = 0
    THEN Fail(S, "operands cannot be both plaintext")
    ELSE IF opOut = TYPEDNIL THEN Fail(S, "panic")
    ELSE IF Degree(S.mem[opOut]) <= opOutMinDegree
    THEN Fail(S, "receiver operand degree is too small")
    ELSE S

\* getElemAndCheckBinary(op0, op1, opOut, opOutMinDegree) of both evaluators:
\* the three operands are interface values (a slot, NIL, or TYPEDNIL).  A
\* method call on an interface that wraps a nil pointer panics.
getElemAndCheckBinary(S, op0, op1, opOut, opOutMinDegree) ==
    IF ~Running(S) THEN S
    ELSE IF op0 = NIL \/ op1 = NIL \/ opOut = NIL THEN Fail(S, "operands cannot be nil")
    ELSE IF op0 = TYPEDNIL \/ op1 = TYPEDNIL THEN Fail(S, "panic")
    ELSE IF Wrap(Degree(S.mem[op0]) + Degree(S.mem[op1])) = 0
    THEN Fail(S, "operands cannot be both plaintext")
    ELSE IF opOut = TYPEDNIL THEN Fail(S, "panic")
    ELSE IF Degree(S.mem[opOut]) < opOutMinDegree
    THEN Fail(S, "receiver operand degree is too small")
    ELSE S

\* An interface value made of a *Ciphertext: a nil pointer gives a non-nil
\* interface that wraps it.
AsOperand(ct) == IF ct = NIL THEN TYPEDNIL ELSE ct

IsElement(op) == op # NIL /\ op # TYPEDNIL

SetScale(S, s, scale) == IF ~Running(S) THEN S ELSE [S EXCEPT !.mem[s].scale = scale]

\* A variant of AlignScales that never uses the scratch element: the operand
\* of smaller scale is always multiplied in place.
AlignScalesInPlace(S, c0, c1, ctOut) ==
    LET sc0 == S.mem[c0].scale
        sc1 == S.mem[c1].scale
    IN  IF sc0 = sc1
        THEN [src |-> NIL, pow |-> 0, dst |-> NIL, rescaled |-> FALSE, tmp0 |-> c0, tmp1 |-> c1]
        ELSE IF sc0 > sc1
        THEN [src |-> c1, pow |-> sc0 - sc1, dst |-> c1, rescaled |-> TRUE,
              tmp0 |-> c0, tmp1 |-> c1]
        ELSE [src |-> c0, pow |-> sc1 - sc0, dst |-> c0, rescaled |-> TRUE,
              tmp0 |-> c0, tmp1 |-> c1]

\* The scale alignment of evaluateInPlace: the operand of smaller scale
\* (src) is multiplied by the power of two that separates the scales (pow),
\* into the scratch element or in place (dst) according to which operand the
\* receiver is; when the product is made in place the element takes the
\* larger scale (rescaled).  tmp0 and tmp1 are the two elements to combine.
\* With equal scales nothing is multiplied (src = NIL).
AlignScales(S, c0, c1, ctOut) ==
    LET sc0 == S.mem[c0].scale
        sc1 == S.mem[c1].scale
        Plan(src, pow, dst, rescaled, tmp0, tmp1) ==
            [src |-> src, pow |-> pow, dst |-> dst, rescaled |-> rescaled,
             tmp0 |-> tmp0, tmp1 |-> tmp1]
    IN  IF sc0 = sc1 THEN Plan(NIL, 0, NIL, FALSE, c0, c1)
        ELSE IF ctOut = c0
        THEN IF sc0 > sc1 THEN Plan(c1, sc0 - sc1, POOL, FALSE, c0, POOL)
             ELSE Plan(c0, sc1 - sc0, c0, TRUE, c0, c1)
        ELSE IF ctOut = c1
        THEN IF sc1 > sc0 THEN Plan(c0, sc1 - sc0, POOL, FALSE, POOL, c1)
             ELSE Plan(c1, sc0 - sc1, ctOut, TRUE, c0, c1)
        ELSE IF sc1 > sc0 THEN Plan(c0, sc1 - sc0, POOL, FALSE, POOL, c1)
             ELSE Plan(c1, sc0 - sc1, NIL, FALSE, c0, NIL)

\* The multiplication AlignScales asks for.
MulByPow2Aligned(S, al) ==
    IF ~Running(S) \/ al.src = NIL THEN S
    ELSE IF al.rescaled
    THEN SetScale(MulByPow2(S, al.src, al.pow, al.dst), al.dst, al.pow + S.mem[al.src].scale)
    ELSE MulByPow2(S, al.src, al.pow, al.dst)

\* evaluateInPlace, first part: the receiver is resized to the larger degree
\* and dropped to the smaller level.  The error of DropLevel is dropped.
evaluateInPlaceResize(S, c0, c1, ctOut) ==
    IF ~Running(S) THEN S
    ELSE IF Len(S.mem[ctOut].value) = 1 THEN Fail(S, "panic")
    ELSE [DropLevel(S, ctOut, Wrap(Level(S.mem[ctOut])
                                   - Min2(Level(S.mem[c0]), Level(S.mem[c1]))))
             EXCEPT !.err = IF @ = "panic" THEN "panic" ELSE ""]

\* evaluateInPlace, last part: the scale of the receiver, then the copy of
\* the components that only the operand of larger degree has.
evaluateInPlaceCopy(S, c0, c1, ctOut, tmp0, tmp1, minDegree, maxDegree) ==
    IF ~Running(S) THEN S
    ELSE IF ~HasContext(Level(S.mem[ctOut])) THEN Fail(S, "panic")
    ELSE IF Degree(S.mem[c0]) > Degree(S.mem[c1]) /\ tmp0 # ctOut
    THEN ForRange(S, minDegree + 1, maxDegree + 1, LAMBDA T, i :
             RingApply(T, Level(S.mem[ctOut]) + 1, Ref(tmp0, i), Ref(tmp0, i),
                       Ref(ctOut, i), CopyRow))
    ELSE IF Degree(S.mem[c1]) > Degree(S.mem[c0]) /\ tmp1 # ctOut
    THEN ForRange(S, minDegree + 1, maxDegree + 1, LAMBDA T, i :
             RingApply(T, Level(S.mem[ctOut]) + 1, Ref(tmp1, i), Ref(tmp1, i),
                       Ref(ctOut, i), CopyRow))
    ELSE S

\* The scale the receiver takes: the larger of the operands' scales.
SetMaxScale(S, c0, c1, ctOut) ==
    IF ~Running(S) THEN S
    ELSE SetScale(S, ctOut, Max2(S.mem[c0].scale, S.mem[c1].scale))

\* evaluateInPlace, middle part: the scales are aligned and the components
\* both operands have are combined.
evaluateInPlaceCombine(S, c0, c1, ctOut, minDegree, maxDegree, nr, Op(_, _, _, _)) ==
    IF ~Running(S) THEN S
    ELSE LET al == AlignScales(S, c0, c1, ctOut)
         IN  evaluateInPlaceCopy(
                 SetMaxScale(
                     ForRange(MulByPow2Aligned(S, al), 0, minDegree + 1, LAMBDA T, i :
                         RingApply(T, nr, Ref(al.tmp0, i), Ref(al.tmp1, i), Ref(ctOut, i), Op)),
                     c0, c1, ctOut),
                 c0, c1, ctOut, al.tmp0, al.tmp1, minDegree, maxDegree)

\* evaluateInPlace(c0, c1, ctOut, evaluate): evaluate is the row operation Op
\* of a context of nr moduli.
evaluateInPlace(S, c0, c1, ctOut, nr, Op(_, _, _, _)) ==
    IF ~Running(S) THEN S
    ELSE evaluateInPlaceCombine(
             evaluateInPlaceResize(
                 Resize(S, ctOut, Max2(Degree(S.mem[c0]), Degree(S.mem[c1]))),
                 c0, c1, ctOut),
             c0, c1, ctOut,
             Min2(Degree(S.mem[c0]), Degree(S.mem[c1])),
             Max2(Degree(S.mem[c0]), Degree(S.mem[c1])), nr, Op)

\* The part common to Add, AddNoMod, Sub, SubNoMod of Scheme-A: the degrees
\* of op0 and op1 are read to build the arguments of getElemAndCheckBinary
\* (before its nil check), then the operation runs in the context of the
\* smallest of the three levels.
ckksAdditive(S, op0, op1, ctOut, Op(_, _, _, _)) ==
    IF ~(IsElement(op0) /\ IsElement(op1)) THEN Fail(S, "panic")
    ELSE IF ~Running(getElemAndCheckBinary(S, op0, op1, AsOperand(ctOut),
                         Max2(Degree(S.mem[op0]), Degree(S.mem[op1]))))
    THEN getElemAndCheckBinary(S, op0, op1, AsOperand(ctOut),
                               Max2(Degree(S.mem[op0]), Degree(S.mem[op1])))
    ELSE IF ~HasContext(Min3(Level(S.mem[op0]), Level(S.mem[op1]), Level(S.mem[ctOut])))
    THEN Fail(S, "panic")
    ELSE evaluateInPlace(S, op0, op1, ctOut,
             Min3(Level(S.mem[op0]), Level(S.mem[op1]), Level(S.mem[ctOut])) + 1, Op)

\* The tail negation of Sub and SubNoMod, after evaluateInPlace; S0 is the
\* state the call started in (minLevel is computed at the start).
ckksNegTail(S, S0, op0, op1, ctOut) ==
    IF ~Running(S) THEN S
    ELSE IF Degree(S.mem[op0]) < Degree(S.mem[op1])
    THEN ForRange(S, Degree(S.mem[op0]) + 1, Degree(S.mem[op1]) + 1, LAMBDA T, i :
             RingApply(T, Min3(Level(S0.mem[op0]), Level(S0.mem[op1]),
                               Level(S0.mem[ctOut])) + 1,
                       Ref(ctOut, i), Ref(ctOut, i), Ref(ctOut, i), NegRow))
    ELSE S

ckksAdd(S, op0, op1, ctOut) == ckksAdditive(S, op0, op1, ctOut, AddRow)

ckksAddNoMod(S, op0, op1, ctOut) == ckksAdditive(S, op0, op1, ctOut, AddNoModRow)

ckksSub(S, op0, op1, ctOut) ==
    ckksNegTail(ckksAdditive(S, op0, op1, ctOut, SubRow), S, op0, op1, ctOut)

ckksSubNoMod(S, op0, op1, ctOut) ==
    ckksNegTail(ckksAdditive(S, op0, op1, ctOut, SubNoModRow), S, op0, op1, ctOut)

\* ------------------------------------------------------------------------
\* Switching keys (spec 3) and the key-switching engine (ckks
\* switchKeysInPlace, bfv switchKeys; spec 4.10)
\* ------------------------------------------------------------------------

\* The number of base-2^bitDecomp digits of modulus i: ceil(bits(q_i)/bitDecomp).
NumDigits(i, bitDecomp) == (BitLen(Moduli[i]) + bitDecomp - 1) \div bitDecomp

\* A key polynomial over the whole chain: fixed canonical residues that
\* depend on the key (seed), the modulus index i, the digit j and the half h.
KeyPoly(seed, i, j, h) ==
    Table(Levels, LAMBDA r :
        MakeRow(LAMBDA u : (1 + 3 * seed + 5 * i + 7 * j + 11 * h + 13 * r + 19 * u
                            + 2 * r * u) % Moduli[r]))

\* A switching key: evakey[i][j] = <<k_{i,j,0}, k_{i,j,1}>> and its bitDecomp.
SwitchingKey(seed, bitDecomp) ==
    [bitDecomp |-> bitDecomp,
     evakey |-> Table(Levels, LAMBDA i : Table(NumDigits(i, bitDecomp), LAMBDA j :
                    <<KeyPoly(seed, i, j, 0), KeyPoly(seed, i, j, 1)>>))]

\* The nil *SwitchingKey / *EvaluationKey.
NilKey == [bitDecomp |-> 0, evakey |-> <<>>]

\* The iterations of the double loop "for i := range context.Modulus, for
\* j < len(evakey.evakey[i])" of a context of nr moduli, in order: the r-th
\* entry is <<i, j>> (i 1-based, j 0-based).
DigitSchedule(evakey, nr) ==
    LET upTo[i \in 0..nr] ==
            IF i = 0 THEN <<>>
            ELSE upTo[i - 1] \o Table(Len(evakey.evakey[i]), LAMBDA j : <<i, j - 1>>)
    IN  upTo[nr]

\* (c >> (j * bitDecomp)) & mask with mask = 2^bitDecomp - 1.
DigitOf(c, j, bitDecomp) == (c \div (2 ^ (j * bitDecomp))) % (2 ^ bitDecomp)

\* A reduction point one iteration after the start of every group of 8.
ReducePointSecond(reduce) == reduce % 8 = 1

\* The reduction point of the loop: reduce&7 == 7, tested before reduce++.
ReducePoint(reduce) == reduce % 8 = 7

\* A final test that never asks for the last reduction.
FinalReduceNever(reduce) == FALSE

\* The test after the loops: (reduce-1)&7 != 7 in uint64 (0 - 1 wraps).
FinalReduce(reduce) == Wrap(reduce - 1) % 8 # 7

\* A variant of KeySwitchBroadcast that writes the digit window on row i of
\* c2qiw only and leaves its other rows as they were.
KeySwitchBroadcastOneRow(S, nr, c2, c2qiw, i, j, bitDecomp) ==
    RingApply(S, nr, c2qiw, c2qiw, c2qiw, LAMBDA a, b, o, x :
        IF x = i THEN MakeRow(LAMBDA u : DigitOf(Poly(S, c2)[i][u + 1], j, bitDecomp))
        ELSE o)

\* The digit window j of row i of c2 is broadcast on every row of c2qiw.
KeySwitchBroadcast(S, nr, c2, c2qiw, i, j, bitDecomp) ==
    RingApply(S, nr, c2qiw, c2qiw, c2qiw, LAMBDA a, b, o, x :
        MakeRow(LAMBDA u : DigitOf(Poly(S, c2)[i][u + 1], j, bitDecomp)))

\* context.MulCoeffsMontgomeryAndAddNoMod(k, c2qiw, acc) for a key half k.
KeySwitchAccumulate(S, nr, k, c2qiw, acc) ==
    IF ~Running(S) THEN S
    ELSE RingApplyP(S, nr, k, Poly(S, c2qiw), acc, MulCoeffsMontgomeryAndAddNoModRow)

\* context.Reduce of both accumulators, when the test says so.
KeySwitchReduce(S, nr, acc0, acc1, test) ==
    IF ~Running(S) \/ ~test THEN S
    ELSE RingApply(RingApply(S, nr, acc0, acc0, acc0, ReduceRow),
                   nr, acc1, acc1, acc1, ReduceRow)

\* The body of the inner loop for the r-th iteration (reduce = r before it):
\* the digit window of row i of c2 is broadcast on every row of c2qiw, c2qiw
\* goes to the NTT domain, both key halves are multiplied and accumulated
\* without reduction, and both accumulators are reduced when reduce&7 = 7.
\* c2 and c2qiw are pool polynomials; acc0 and acc1 the two accumulators.
KeySwitchDigit(S, nr, evakey, c2, c2qiw, acc0, acc1, r) ==
    IF ~Running(S) THEN S
    ELSE
    LET i == DigitSchedule(evakey, nr)[r + 1][1]
        j == DigitSchedule(evakey, nr)[r + 1][2]
    IN  KeySwitchReduce(
            KeySwitchAccumulate(
                KeySwitchAccumulate(
                    RingApply(KeySwitchBroadcast(S, nr, c2, c2qiw, i, j, evakey.bitDecomp),
                              nr, c2qiw, c2qiw, c2qiw, NTTRow),
                    nr, evakey.evakey[i][j + 1][1], c2qiw, acc0),
                nr, evakey.evakey[i][j + 1][2], c2qiw, acc1),
            nr, acc0, acc1, ReducePoint(r))

\* The statement after the loops: one more reduction of both accumulators
\* when FinalReduce says so, reduce being the number of iterations done.
KeySwitchFinish(S, nr, acc0, acc1, reduce) ==
    KeySwitchReduce(S, nr, acc0, acc1, FinalReduce(reduce))

\* The double loop and the final reduction.
KeySwitchLoop(S, nr, evakey, c2, c2qiw, acc0, acc1) ==
    IF ~Running(S) THEN S
    ELSE IF Len(evakey.evakey) < nr THEN Fail(S, "panic")
    ELSE KeySwitchFinish(
             ForRange(S, 0, Len(DigitSchedule(evakey, nr)), LAMBDA T, r :
                 KeySwitchDigit(T, nr, evakey, c2, c2qiw, acc0, acc1, r)),
             nr, acc0, acc1, Len(DigitSchedule(evakey, nr)))

\* A variant of switchKeysInPlace that decomposes cx as it is, without
\* taking it out of the NTT domain first.
switchKeysInPlaceNoInvNTT(S, cx, evakey, ctOut) ==
    IF ~Running(S) THEN S
    ELSE IF ~HasContext(Level(S.mem[ctOut])) THEN Fail(S, "panic")
    ELSE KeySwitchLoop(
             RingApply(S, Level(S.mem[ctOut]) + 1, cx, cx, Ref(RING, 4), CopyRow),
             Level(S.mem[ctOut]) + 1, evakey, Ref(RING, 4), Ref(RING, 5),
             Ref(ctOut, 0), Ref(ctOut, 1))

\* ckks switchKeysInPlace(cx, evakey, ctOut): the context is that of the
\* receiver's level; c2 = ringpool[4] receives InvNTT(cx), c2qiw = ringpool[5].
switchKeysInPlace(S, cx, evakey, ctOut) ==
    IF ~Running(S) THEN S
    ELSE IF ~HasContext(Level(S.mem[ctOut])) THEN Fail(S, "panic")
    ELSE KeySwitchLoop(
             RingApply(S, Level(S.mem[ctOut]) + 1, cx, cx, Ref(RING, 4), InvNTTRow),
             Level(S.mem[ctOut]) + 1, evakey, Ref(RING, 4), Ref(RING, 5),
             Ref(ctOut, 0), Ref(ctOut, 1))

\* ------------------------------------------------------------------------
\* Scheme-A: MulRelin, Relinearize, SwitchKeys
\* ------------------------------------------------------------------------

\* context.Copy(p0, p1) of a context of nr moduli.
ContextCopy(S, nr, rsrc, rdst) == RingApply(S, nr, rsrc, rsrc, rdst, CopyRow)

\* context.Copy of components 0 and 1: c0 onto r0, then c1 onto r1.
ContextCopy2(S, nr, c0, c1, r0, r1) ==
    ContextCopy(ContextCopy(S, nr, c0, r0), nr, c1, r1)

\* The tensor product of MulRelin's ciphertext-by-ciphertext branch:
\* c00, c01 = ringpool[0], ringpool[1] take the inputs of el0 in Montgomery
\* form; c0, c1, c2 receive the three components of the product.
ckksMulTensor(S, nr, el0, el1, c0, c1, c2) ==
    RingApply(
      RingApply(
        RingApply(
          RingApply(
            RingApply(
              RingApply(S, nr, Ref(el0, 0), Ref(el0, 0), Ref(RING, 0), MFormRow),
              nr, Ref(el0, 1), Ref(el0, 1), Ref(RING, 1), MFormRow),
            nr, Ref(RING, 0), Ref(el1, 0), c0, MulCoeffsMontgomeryRow),
          nr, Ref(RING, 0), Ref(el1, 1), c1, MulCoeffsMontgomeryRow),
        nr, IF el0 = el1 THEN c1 ELSE Ref(RING, 1), IF el0 = el1 THEN c1 ELSE Ref(el1, 0), c1,
        LAMBDA a, b, o, x : IF el0 = el1 THEN AddRow(a, b, o, x)
                            ELSE MulCoeffsMontgomeryAndAddNoModRow(a, b, o, x)),
      nr, Ref(RING, 1), Ref(el1, 1), c2, MulCoeffsMontgomeryRow)

\* What follows the tensor product: with a key the first two components go
\* to the receiver and c2 is key-switched onto them; without one, a product
\* made in the pool is copied on the receiver resized to degree 2.
ckksMulOutput(S, nr, evakey, elOut, direct, c0, c1, c2) ==
    IF ~Running(S) THEN S
    ELSE IF evakey # NilKey
    THEN switchKeysInPlace(
             ContextCopy2(S, nr, c0, c1, Ref(elOut, 0), Ref(elOut, 1)), c2, evakey, elOut)
    ELSE IF ~direct
    THEN ContextCopy(
             ContextCopy2(Resize(S, elOut, 2), nr, c0, c1, Ref(elOut, 0), Ref(elOut, 1)),
             nr, c2, Ref(elOut, 2))
    ELSE S

\* The ciphertext-by-ciphertext branch of MulRelin in the context of nr
\* moduli: c0, c1, c2 are the receiver's components or ringpool[2..4].
ckksMulCtCt(S, nr, el0, el1, evakey, elOut) ==
    LET direct == elOut # el0 /\ elOut # el1
        c0 == IF direct THEN Ref(elOut, 0) ELSE Ref(RING, 2)
        c1 == IF direct THEN Ref(elOut, 1) ELSE Ref(RING, 3)
        c2 == IF direct /\ evakey = NilKey THEN Ref(elOut, 2) ELSE Ref(RING, 4)
    IN  ckksMulOutput(
            ckksMulTensor(IF direct /\ evakey = NilKey THEN Resize(S, elOut, 2) ELSE S,
                          nr, el0, el1, c0, c1, c2),
            nr, evakey, elOut, direct, c0, c1, c2)

\* The plaintext-by-ciphertext branch of MulRelin: tmp0 is the plaintext,
\* tmp1 the ciphertext.
ckksMulPtCt(S, nr, tmp0, tmp1, elOut) ==
    RingApply(
      RingApply(
        RingApply(
          RingApply(S, Len(Poly(S, Ref(RING, 0))), Ref(RING, 0), Ref(RING, 0), Ref(RING, 0),
                    LAMBDA a, b, o, x : ZeroRow),
          nr, Ref(tmp0, 0), Ref(tmp0, 0), Ref(RING, 0), MFormRow),
        nr, Ref(RING, 0), Ref(tmp1, 0), Ref(elOut, 0), MulCoeffsMontgomeryRow),
      nr, Ref(RING, 0), Ref(tmp1, 1), Ref(elOut, 1), MulCoeffsMontgomeryRow)

\* MulRelin lowers the receiver to the smallest level; the error of
\* DropLevel is dropped.
ckksMulDropLevel(S, ctOut, minLevel) ==
    IF ~Running(S) \/ ~(Level(S.mem[ctOut]) > minLevel) THEN S
    ELSE IF Len(S.mem[ctOut].value) = 1 THEN Fail(S, "panic")
    ELSE [DropLevel(S, ctOut, Wrap(Level(S.mem[ctOut]) - minLevel))
             EXCEPT !.err = IF @ = "panic" THEN "panic" ELSE ""]

\* MulRelin after the receiver was lowered: the checks on the degrees and
\* the NTT flags of the inputs, the scale of the receiver, the product.
ckksMulChecked(S, op0, op1, evakey, ctOut, minLevel) ==
    IF ~Running(S) THEN S
    ELSE IF Degree(S.mem[op0]) > 1 \/ Degree(S.mem[op1]) > 1
    THEN Fail(S, "cannont mul -> input element and output element must be of degree 0 or 1")
    ELSE IF ~S.mem[op0].isNTT THEN Fail(S, "cannot mul -> op0 must be in NTT to multiply")
    ELSE IF ~S.mem[op1].isNTT THEN Fail(S, "cannot mul -> op1 must be in NTT to multiply")
    ELSE IF ~HasContext(minLevel)
    THEN Fail(SetScale(S, ctOut, Wrap(S.mem[op0].scale + S.mem[op1].scale)), "panic")
    ELSE IF Wrap(Degree(S.mem[op0]) + Degree(S.mem[op1])) = 2
    THEN ckksMulCtCt(SetScale(S, ctOut, Wrap(S.mem[op0].scale + S.mem[op1].scale)),
                     minLevel + 1, op0, op1, evakey, ctOut)
    ELSE ckksMulPtCt(SetScale(S, ctOut, Wrap(S.mem[op0].scale + S.mem[op1].scale)),
                     minLevel + 1,
                     IF Degree(S.mem[op0]) = 1 THEN op1 ELSE op0,
                     IF Degree(S.mem[op0]) = 1 THEN op0 ELSE op1, ctOut)

\* Evaluator.MulRelin(op0, op1, evakey, ctOut); evakey is NilKey or a key.  The
\* receiver's level is lowered before the checks on the degrees and the NTT
\* flags of the inputs.
ckksMulRelin(S, op0, op1, evakey, ctOut) ==
    IF ~(IsElement(op0) /\ IsElement(op1)) THEN Fail(S, "panic")
    ELSE IF ~Running(getElemAndCheckBinary(S, op0, op1, AsOperand(ctOut),
                         Max2(Degree(S.mem[op0]), Degree(S.mem[op1]))))
    THEN getElemAndCheckBinary(S, op0, op1, AsOperand(ctOut),
                               Max2(Degree(S.mem[op0]), Degree(S.mem[op1])))
    ELSE ckksMulChecked(
             ckksMulDropLevel(S, ctOut, Min3(Level(S.mem[op0]), Level(S.mem[op1]),
                                             Level(S.mem[ctOut]))),
             op0, op1, evakey, ctOut,
             Min3(Level(S.mem[op0]), Level(S.mem[op1]), Level(S.mem[ctOut])))

\* Evaluator.Relinearize(ct0, evakey, ctOut) of Scheme-A.
ckksRelinearize(S, ct0, evakey, ctOut) ==
    IF Degree(S.mem[ct0]) # 2
    THEN Fail(S, "cannot relinearize -> input is not of degree 2")
    ELSE IF ~HasContext(Min2(Level(S.mem[ct0]), Level(S.mem[ctOut]))) THEN Fail(S, "panic")
    ELSE Resize(
             switchKeysInPlace(
                 ContextCopy2(IF ctOut # ct0 THEN SetScale(S, ctOut, S.mem[ct0].scale) ELSE S,
                              Min2(Level(S.mem[ct0]), Level(S.mem[ctOut])) + 1,
                              Ref(ct0, 0), Ref(ct0, 1), Ref(ctOut, 0), Ref(ctOut, 1)),
                 Ref(ct0, 2), evakey, ctOut),
             ctOut, 1)

\* Evaluator.SwitchKeys(ct0, switchingKey, ctOut) of Scheme-A.
ckksSwitchKeys(S, ct0, switchingKey, ctOut) ==
    IF Degree(S.mem[ct0]) # 1 \/ Degree(S.mem[ctOut]) # 1
    THEN Fail(S, "cannot switchkeys -> input and output ciphertext must be of degree 1")
    ELSE IF ~HasContext(Min2(Level(S.mem[ct0]), Level(S.mem[ctOut]))) THEN Fail(S, "panic")
    ELSE switchKeysInPlace(
             ContextCopy2(S, Min2(Level(S.mem[ct0]), Level(S.mem[ctOut])) + 1,
                          Ref(ct0, 0), Ref(ct0, 1), Ref(ctOut, 0), Ref(ctOut, 1)),
             Ref(ct0, 1), switchingKey, ctOut)

\* ------------------------------------------------------------------------
\* Scheme-A: rotations
\* ------------------------------------------------------------------------

\* The Galois generator and its inverse modulo 2N (spec 4.7).
GaloisGen == 5

GaloisGenInv == CHOOSE g \in 1..(2 * N - 1) : (g * GaloisGen) % (2 * N) = 1

\* galElRotColLeft[k], galElRotColRight[k]: gen^k, gen^-k modulo 2N.
GalElRotColLeft(k) == ModExp(GaloisGen, k, 2 * N)

GalElRotColRight(k) == ModExp(GaloisGenInv, k, 2 * N)

\* ring.PermuteNTT on one row: out[i] = in[index[i]] with
\* index[i] = bitrev((gen * (2 * bitrev(i) + 1) mod 2N - 1) / 2).
PermuteNTTIndex(i, gen) ==
    BitReverse((((gen * (2 * BitReverse(i, BitLen(N) - 1) + 1)) % (2 * N)) - 1) \div 2,
               BitLen(N) - 1)

\* ring.PermuteNTT(polIn, gen, polOut): every row of polIn.
PermuteNTT(S, rIn, gen, rOut) ==
    IF ~Running(S) THEN S
    ELSE IF ~ValidRef(S, rIn) THEN Fail(S, "panic")
    ELSE RingApply(S, Len(Poly(S, rIn)), rIn, rIn, rOut, LAMBDA a, b, o, x :
             MakeRow(LAMBDA i : a[PermuteNTTIndex(i, gen) + 1]))

\* A rotation-key table: the rotations for which a left / a right key exists.
RotationKeys(left, right) == [left |-> left, right |-> right]

\* The bit-decomposition base of the evaluation keys handed to the evaluators.
KeyBitDecomp == 3

\* The key of the table for the left (dir = 0) or right (dir = 1) rotation by k.
RotationKey(dir, k) == SwitchingKey(2 + 2 * k + dir, KeyBitDecomp)

\* hammingWeight64.
HammingWeight(k) ==
    LET hw[n \in 0..k] == IF n = 0 THEN 0 ELSE (n % 2) + hw[n \div 2]
    IN  hw[k]

\* A variant of RotatesLeft that always rotates to the left.
RotatesLeftAlways(n, k) == TRUE

\* RotateColumns, the choice of the power-of-two fallback in a ring of degree
\* n: hammingWeight64(k) <= hammingWeight64((n >> 1) - k) rotates to the left
\* by k, otherwise to the right by n/2 - k.
RotatesLeft(n, k) == HammingWeight(k) <= HammingWeight((n \div 2) - k)

\* rotateColumnsPow2: generator *= generator; generator &= mask, with
\* mask = (n << 1) - 1.
SquareGenerator(n, generator) == (generator * generator) % (2 * n)

\* permuteNTT after the two permutations: the copies on the receiver in the
\* context of its level, and the key switch.
permuteNTTSwitch(S, el0, el1, evakey, ctOut) ==
    IF ~Running(S) THEN S
    ELSE IF ~HasContext(Level(S.mem[ctOut])) THEN Fail(S, "panic")
    ELSE switchKeysInPlace(
             ContextCopy2(S, Level(S.mem[ctOut]) + 1, el0, el1, Ref(ctOut, 0), Ref(ctOut, 1)),
             Ref(ctOut, 1), evakey, ctOut)

\* Evaluator.permuteNTT(ct0, generator, evakey, ctOut): the permutations go
\* to the receiver, or to ringpool[0], ringpool[1] when it is the input.
permuteNTT(S, ct0, generator, evakey, ctOut) ==
    IF ~Running(S) THEN S
    ELSE
    LET el0 == IF ct0 # ctOut THEN Ref(ctOut, 0) ELSE Ref(RING, 0)
        el1 == IF ct0 # ctOut THEN Ref(ctOut, 1) ELSE Ref(RING, 1)
    IN  permuteNTTSwitch(
            PermuteNTT(PermuteNTT(S, Ref(ct0, 0), generator, el0),
                       Ref(ct0, 1), generator, el1),
            el0, el1, evakey, ctOut)

\* Evaluator.rotateColumnsPow2(ct0, generator, k, evakey, ctOut): after the
\* copy, one permuteNTT per set bit of k, bit b using generator^(2^b) and the
\* key of the rotation by 2^b (dir tells the left or the right table).
rotateColumnsPow2(S, ct0, generator, k, dir, ctOut) ==
    IF ~Running(S) THEN S
    ELSE IF ~HasContext(Level(S.mem[ctOut])) THEN Fail(S, "panic")
    ELSE
    LET gens[b \in 0..BitLen(k)] ==
            IF b = 0 THEN generator ELSE SquareGenerator(N, gens[b - 1])
    IN  ForRange(ContextCopy2(S, Level(S.mem[ctOut]) + 1, Ref(ct0, 0), Ref(ct0, 1),
                              Ref(ctOut, 0), Ref(ctOut, 1)),
                 0, BitLen(k), LAMBDA T, b :
                     IF (k \div (2 ^ b)) % 2 = 1
                     THEN permuteNTT(T, ctOut, gens[b], RotationKey(dir, 2 ^ b), ctOut)
                     ELSE T)

\* The powers of two i = 1; i < n/2; i <<= 1.
Pow2Rotations == {i \in 1..((N \div 2) - 1) : \E b \in 0..BitLen(N) : i = 2 ^ b}

\* RotateColumns, hasPow2Rotations: the table holds the left and the right
\* key of every power of two.
HasPow2Rotations(evakey) ==
    \A i \in Pow2Rotations : i \in evakey.left /\ i \in evakey.right

\* A variant of HasPow2Rotations that looks at the left keys only.
HasPow2RotationsLeft(evakey) ==
    \A i \in Pow2Rotations : i \in evakey.left

\* A variant of ckksRotateColumns that takes the power-of-two fallback as
\* soon as the left keys of the powers of two are in the table.
ckksRotateColumnsLeftKeys(S, ct0, k0, evakey, ctOut) ==
    IF Degree(S.mem[ct0]) # 1 \/ Degree(S.mem[ctOut]) # 1
    THEN Fail(S, "cannot rotate -> input and output ciphertext must be of degree 1")
    ELSE
    LET k == k0 % (N \div 2)
        left == RotatesLeft(N, k)
    IN  IF k = 0 THEN ElementCopy(S, ctOut, ct0)
        ELSE IF k \in evakey.left
        THEN permuteNTT(S, ct0, GalElRotColLeft(k), RotationKey(0, k), ctOut)
        ELSE IF HasPow2RotationsLeft(evakey)
        THEN rotateColumnsPow2(S, ct0, IF left THEN GaloisGen ELSE GaloisGenInv,
                               IF left THEN k ELSE (N \div 2) - k,
                               IF left THEN 0 ELSE 1, ctOut)
        ELSE Fail(S, "cannot rotate -> specific rotation and pow2 rotations have not been generated")

\* Evaluator.RotateColumns(ct0, k, evakey, ctOut) of Scheme-A: with the
\* power-of-two keys, the rotation is made to the left by k or to the right
\* by N/2 - k, whichever has the fewer set bits.
ckksRotateColumns(S, ct0, k0, evakey, ctOut) ==
    IF Degree(S.mem[ct0]) # 1 \/ Degree(S.mem[ctOut]) # 1
    THEN Fail(S, "cannot rotate -> input and output ciphertext must be of degree 1")
    ELSE
    LET k == k0 % (N \div 2)
        left == RotatesLeft(N, k)
    IN  IF k = 0 THEN ElementCopy(S, ctOut, ct0)
        ELSE IF k \in evakey.left
        THEN permuteNTT(S, ct0, GalElRotColLeft(k), RotationKey(0, k), ctOut)
        ELSE IF HasPow2Rotations(evakey)
        THEN rotateColumnsPow2(S, ct0, IF left THEN GaloisGen ELSE GaloisGenInv,
                               IF left THEN k ELSE (N \div 2) - k,
                               IF left THEN 0 ELSE 1, ctOut)
        ELSE Fail(S, "cannot rotate -> specific rotation and pow2 rotations have not been generated")

\* ------------------------------------------------------------------------
\* Scheme-A: Rescale
\* ------------------------------------------------------------------------

\* One row of rescale: (p - t) * c with c = q_top^-1 in Montgomery form.
rescaleRow(p, t, c, x) ==
    MakeRow(LAMBDA j : MRed(CRed(p[j + 1] + (Moduli[x] - t[j + 1]), Moduli[x]), c, Moduli[x]))

\* rescale, first statement: the top row (row top) of the polynomial r
\* leaves the NTT domain, in place.
rescaleTopRow(S, r, top) ==
    [S EXCEPT !.mem[r.s].value[r.c + 1][top] = InvNTTRow(@, @, @, top)]

\* rescale, the loop and the truncation: for each other row i, the top row
\* is brought to the NTT domain of q_i in ringpool[0].Coeffs[0], subtracted
\* from row i, and the difference is multiplied by q_top^-1; the top row is
\* dropped.
rescaleRows(S, r, top) ==
    IF ~Running(S) THEN S
    ELSE [SetPoly(S, r, Table(top - 1, LAMBDA i :
              rescaleRow(Poly(S, r)[i], NTTRow(Poly(S, r)[top], <<>>, <<>>, i),
                         context.rescalParams[top][i], i)))
            EXCEPT !.mem[RING].value[1][1] =
                       IF top = 1 THEN @ ELSE NTTRow(Poly(S, r)[top], <<>>, <<>>, top - 1)]

\* rescale(evaluator, p0, p1) with p0 = p1 = the polynomial r.
rescale(S, r) ==
    IF ~Running(S) THEN S
    ELSE IF ~ValidRef(S, r) THEN Fail(S, "panic")
    ELSE IF Len(Poly(S, r)) = 0 \/ Len(Poly(S, r)) > Levels THEN Fail(S, "panic")
    ELSE rescaleRows(rescaleTopRow(S, r, Len(Poly(S, r))), r, Len(Poly(S, r)))

\* A variant of ckksRescaleCondition that asks the scale to exceed the
\* threshold (> in place of >=).
ckksRescaleConditionStrict(S, c1) ==
    /\ S.mem[c1].scale > LogScale + ScaleChain[Level(S.mem[c1]) + 1]
    /\ Level(S.mem[c1]) > 0

\* The test of the loop of Rescale on the receiver c1:
\* c1.Scale() >= logScale + scalechain[c1.Level()] && c1.Level() > 0.
ckksRescaleCondition(S, c1) ==
    /\ S.mem[c1].scale >= LogScale + ScaleChain[Level(S.mem[c1]) + 1]
    /\ Level(S.mem[c1]) > 0

\* The body of the loop of Rescale: the scale loses the size of the top
\* modulus, the running product is divided by it, and every component is
\* rescaled.
ckksRescaleIteration(S, c1) ==
    IF ~Running(S) THEN S
    ELSE ForRange([S EXCEPT !.mem[c1].scale = @ - ScaleChain[Level(S.mem[c1]) + 1],
                            !.mem[c1].currentModulus =
                                DivRound(@, Moduli[Level(S.mem[c1]) + 1])],
                  0, Len(S.mem[c1].value), LAMBDA T, i : rescale(T, Ref(c1, i)))

RECURSIVE ckksRescaleLoop(_, _)
\* The loop of Rescale on the receiver c1.
ckksRescaleLoop(S, c1) ==
    IF ~Running(S) THEN S
    ELSE IF ~HasContext(Level(S.mem[c1])) THEN Fail(S, "panic")
    ELSE IF ckksRescaleCondition(S, c1)
    THEN ckksRescaleLoop(ckksRescaleIteration(S, c1), c1)
    ELSE S

\* A variant of ckksRescaleEnter that compares the levels of the input and
\* of the receiver before it looks at the level of the input.
ckksRescaleEnterLevelsFirst(S, ct0, c1) ==
    LET l0 == Level(S.mem[ct0])
        l1 == Level(S.mem[c1])
    IN  IF l0 # l1
        THEN Fail(S, "cannot rescale -> reciever ciphertext does not match input ciphertext level")
        ELSE IF l0 = 0 THEN Fail(S, "cannot rescale -> input ciphertext already at level 0")
        ELSE IF ~HasContext(l1) THEN Fail(S, "panic")
        ELSE IF S.mem[ct0].scale >= ScaleChain[l1 + 1] + LogScale /\ ~S.mem[ct0].isNTT
        THEN Fail(S, "cannot rescale -> input ciphertext not in NTT")
        ELSE ElementCopy(S, c1, ct0)

\* Evaluator.Rescale(ct0, c1) up to its loop: the checks, and the copy of
\* the input on the receiver.  (When the scale is below the threshold the
\* code copies and returns; the test of the loop is false after that copy.)
ckksRescaleEnter(S, ct0, c1) ==
    LET l0 == Level(S.mem[ct0])
        l1 == Level(S.mem[c1])
    IN  IF l0 = 0 THEN Fail(S, "cannot rescale -> input ciphertext already at level 0")
        ELSE IF l0 # l1
        THEN Fail(S, "cannot rescale -> reciever ciphertext does not match input ciphertext level")
        ELSE IF ~HasContext(l1) THEN Fail(S, "panic")
        ELSE IF S.mem[ct0].scale >= ScaleChain[l1 + 1] + LogScale /\ ~S.mem[ct0].isNTT
        THEN Fail(S, "cannot rescale -> input ciphertext not in NTT")
        ELSE ElementCopy(S, c1, ct0)

\* Evaluator.Rescale(ct0, c1).
ckksRescale(S, ct0, c1) == ckksRescaleLoop(ckksRescaleEnter(S, ct0, c1), c1)

\* Evaluator.DropLevel(ct0, levels) called by the user.
ckksDropLevel(S, ct0, levels) == DropLevel(S, ct0, levels)

\* ------------------------------------------------------------------------
\* Scheme-I (bfv Evaluator): contextQ is the first QRows moduli of the
\* chain, contextQP the whole chain; bfv elements have QRows rows and no
\* level or scale (the fields scale and currentModulus stay 0).
\* ------------------------------------------------------------------------

QRows == Levels - 1

\* bfvcontext.t: the plaintext modulus.
PlainModulus == 5

SetIsNTT(S, s, isNTT) == IF ~Running(S) THEN S ELSE [S EXCEPT !.mem[s].isNTT = isNTT]

\* bfvElement.Copy(src): like the Scheme-A one, without level or scale.
bfvElementCopy(S, sdst, ssrc) ==
    IF ~Running(S) \/ sdst = ssrc THEN S
    ELSE SetIsNTT(ForRange(S, 0, Len(S.mem[ssrc].value), LAMBDA T, i :
                      PolyCopy(T, Ref(ssrc, i), Ref(sdst, i))),
                  sdst, S.mem[ssrc].isNTT)

\* evaluateInPlaceBinary(el0, el1, elOut, evaluate) with evaluate a row
\* operation of contextQ: the receiver is not resized; the tail of the
\* operand of larger degree (largest) is copied unless it is the receiver
\* itself.
evaluateInPlaceBinary(S, el0, el1, elOut, Op(_, _, _, _)) ==
    IF ~Running(S) THEN S
    ELSE
    LET d0 == Degree(S.mem[el0])
        d1 == Degree(S.mem[el1])
        largest == IF d0 > d1 THEN el0 ELSE IF d1 > d0 THEN el1 ELSE NIL
    IN  ForRange(ForRange(S, 0, Min2(d0, d1) + 1, LAMBDA T, i :
                     RingApply(T, QRows, Ref(el0, i), Ref(el1, i), Ref(elOut, i), Op)),
                 Min2(d0, d1) + 1,
                 IF largest # NIL /\ largest # elOut THEN Max2(d0, d1) + 1 ELSE 0,
                 LAMBDA T, i : PolyCopy(T, Ref(largest, i), Ref(elOut, i)))

\* The part common to Add, AddNoMod, Sub, SubNoMod of Scheme-I.
bfvAdditive(S, op0, op1, ctOut, Op(_, _, _, _)) ==
    IF ~(IsElement(op0) /\ IsElement(op1)) THEN Fail(S, "panic")
    ELSE evaluateInPlaceBinary(
             getElemAndCheckBinary(S, op0, op1, AsOperand(ctOut),
                                   Max2(Degree(S.mem[op0]), Degree(S.mem[op1]))),
             op0, op1, ctOut, Op)

bfvAdd(S, op0, op1, ctOut) == bfvAdditive(S, op0, op1, ctOut, AddRow)

bfvAddNoMod(S, op0, op1, ctOut) == bfvAdditive(S, op0, op1, ctOut, AddNoModRow)

bfvSub(S, op0, op1, ctOut) == bfvAdditive(S, op0, op1, ctOut, SubRow)

bfvSubNoMod(S, op0, op1, ctOut) == bfvAdditive(S, op0, op1, ctOut, SubNoModRow)

\* The integer in [0, Q') that has the residues rows[i][u+1] modulo the first
\* n moduli (Q' their product), by CRT.
CrtLift(rows, n, u) ==
    LET sum[i \in 0..n] ==
            IF i = 0 THEN 0
            ELSE (sum[i - 1]
                  + (((rows[i][u + 1] % Moduli[i]) * context.crtInverse[n][i]) % Moduli[i])
                    * (ModulusBigint(n - 1) \div Moduli[i])) % ModulusBigint(n - 1)
    IN  sum[n]

\* The centered representative of x modulo M.
Centered(x, M) == IF 2 * x > M THEN x - M ELSE x

\* basisextender.ExtendBasis(p, pOut): the rows of contextQ are kept, the
\* rows of P receive the same (centered) integer modulo p_j (spec 4.5).
ExtendBasis(S, rIn, rOut) ==
    IF ~Running(S) THEN S
    ELSE IF ~ValidRef(S, rIn) THEN Fail(S, "panic")
    ELSE IF Len(Poly(S, rIn)) < QRows THEN Fail(S, "panic")
    ELSE RingApplyP(S, Levels, Poly(S, rIn) \o NewPoly(Levels - QRows - 1),
                    Poly(S, rIn) \o NewPoly(Levels - QRows - 1), rOut,
                    LAMBDA a, b, o, x :
                        IF x <= QRows THEN a
                        ELSE MakeRow(LAMBDA u :
                                 Centered(CrtLift(Poly(S, rIn), QRows, u),
                                          ModulusBigint(QRows - 1)) % Moduli[x]))

\* round(t * x / Q) mod t for a centered integer x.
ScaleCoeff(x) ==
    ((2 * PlainModulus * x + ModulusBigint(QRows - 1)) \div (2 * ModulusBigint(QRows - 1)))
        % PlainModulus

\* complexscaler.Scale(p, pOut): x being the centered integer p stands for
\* modulo QP, every row of contextQ receives round(t * x / Q) mod t (spec 4.5).
ComplexScale(S, rIn, rOut) ==
    IF ~Running(S) THEN S
    ELSE IF ~ValidRef(S, rIn) THEN Fail(S, "panic")
    ELSE IF Len(Poly(S, rIn)) < Levels THEN Fail(S, "panic")
    ELSE RingApplyP(S, QRows, Poly(S, rIn), Poly(S, rIn), rOut, LAMBDA a, b, o, x :
             MakeRow(LAMBDA u :
                 ScaleCoeff(Centered(CrtLift(Poly(S, rIn), Levels, u),
                                     ModulusBigint(Levels - 1))) % Moduli[x]))

\* A contextQP operation on polynomials given by reference.
RingQP(S, ra, rb, ro, Op(_, _, _, _)) == RingApply(S, Levels, ra, rb, ro, Op)

\* tensorAndRescale, first part: the components of the element in slot ct
\* are extended to the basis QP and brought to the NTT domain in the pool
\* element c (nothing for n = 0).
tensorExtend(S, ct, c, n) ==
    ForRange(S, 0, n, LAMBDA T, i :
        RingQP(ExtendBasis(T, Ref(ct, i), Ref(c, i)), Ref(c, i), Ref(c, i), Ref(c, i), NTTRow))

\* The tensor of two elements of degree 1: c00, c01 = polypool[0],
\* polypool[1]; c1 is the pool element of the second operand (ctxpool[0]
\* itself when squaring).
tensorDegree1(S, squaring, c1) ==
    RingQP(
      RingQP(
        RingQP(
          RingQP(
            RingQP(
              RingQP(S, Ref(POOL, 0), Ref(POOL, 0), Ref(RING, 0), MFormRow),
              Ref(POOL, 1), Ref(POOL, 1), Ref(RING, 1), MFormRow),
            Ref(RING, 0), Ref(c1, 0), Ref(POOL2, 0), MulCoeffsMontgomeryRow),
          Ref(RING, 0), Ref(c1, 1), Ref(POOL2, 1), MulCoeffsMontgomeryRow),
        IF squaring THEN Ref(POOL2, 1) ELSE Ref(RING, 1),
        IF squaring THEN Ref(POOL2, 1) ELSE Ref(c1, 0), Ref(POOL2, 1),
        LAMBDA a, b, o, x : IF squaring THEN AddRow(a, b, o, x)
                            ELSE MulCoeffsMontgomeryAndAddNoModRow(a, b, o, x)),
      Ref(RING, 1), Ref(c1, 1), Ref(POOL2, 2), MulCoeffsMontgomeryRow)

\* The squaring of an element of degree d0 # 1 (c00 = ctxpool[1]).
tensorSquare(S, d0, len0) ==
    ForRange(
      ForRange(
        ForRange(S, 0, len0, LAMBDA T, i :
            RingQP(T, Ref(POOL, i), Ref(POOL, i), Ref(POOL1, i), MFormRow)),
        0, d0 + 1, LAMBDA T, i :
            ForRange(T, i + 1, d0 + 1, LAMBDA U, j :
                RingQP(
                  RingQP(U, Ref(POOL1, i), Ref(POOL, j), Ref(POOL2, i + j),
                         MulCoeffsMontgomeryRow),
                  Ref(POOL2, i + j), Ref(POOL2, i + j), Ref(POOL2, i + j), AddRow))),
      0, d0 + 1, LAMBDA T, i :
          RingQP(T, Ref(POOL1, i), Ref(POOL, i), Ref(POOL2, 2 * i),
                 MulCoeffsMontgomeryAndAddRow))

\* The product of two different elements, not both of degree 1.
tensorProduct(S, len0, len1) ==
    ForRange(S, 0, len0, LAMBDA T, i :
        ForRange(RingQP(T, Ref(POOL, i), Ref(POOL, i), Ref(POOL, i), MFormRow),
                 0, len1, LAMBDA U, j :
                     RingQP(U, Ref(POOL, i), Ref(POOL1, j), Ref(POOL2, i + j),
                            MulCoeffsMontgomeryAndAddRow)))

\* tensorAndRescale, middle part: tmpCtOut = ctxpool[2] receives the tensor.
tensorMultiply(S, squaring, d0, d1, len0, len1) ==
    IF ~Running(S) THEN S
    ELSE IF d0 = 1 /\ d1 = 1
    THEN tensorDegree1(S, squaring, IF squaring THEN POOL ELSE POOL1)
    ELSE IF squaring
    THEN tensorSquare(ForRange(S, 0, len0 + len1, LAMBDA T, i :
                          RingQP(T, Ref(POOL2, i), Ref(POOL2, i), Ref(POOL2, i),
                                 LAMBDA a, b, o, x : ZeroRow)),
                      d0, len0)
    ELSE tensorProduct(ForRange(S, 0, len0 + len1, LAMBDA T, i :
                           RingQP(T, Ref(POOL2, i), Ref(POOL2, i), Ref(POOL2, i),
                                  LAMBDA a, b, o, x : ZeroRow)),
                       len0, len1)

\* tensorAndRescale(ct0, ct1, ctOut): c0, c1, tmpCtOut = ctxpool[0..2]; the
\* last part brings each component of the tensor out of the NTT domain and
\* scales it into the receiver.
tensorAndRescale(S, ct0, ct1, ctOut) ==
    IF ~Running(S) THEN S
    ELSE ForRange(
             tensorMultiply(
                 tensorExtend(tensorExtend(S, ct0, POOL, Len(S.mem[ct0].value)),
                              ct1, POOL1, IF ct0 = ct1 THEN 0 ELSE Len(S.mem[ct1].value)),
                 ct0 = ct1, Degree(S.mem[ct0]), Degree(S.mem[ct1]),
                 Len(S.mem[ct0].value), Len(S.mem[ct1].value)),
             0, Len(S.mem[ctOut].value), LAMBDA T, i :
                 ComplexScale(
                     RingQP(T, Ref(POOL2, i), Ref(POOL2, i), Ref(POOL2, i), InvNTTRow),
                     Ref(POOL2, i), Ref(ctOut, i)))

\* Evaluator.Mul(op0, op1, ctOut) of Scheme-I: op0 and ctOut are *Ciphertext
\* (a slot or NIL), op1 an interface value.  op0.Degree() + op1.Degree() is
\* computed before the call of getElemAndCheckBinary.
bfvMul(S, op0, op1, ctOut) ==
    IF ~(IsElement(op0) /\ IsElement(op1)) THEN Fail(S, "panic")
    ELSE tensorAndRescale(
             getElemAndCheckBinary(S, AsOperand(op0), op1, AsOperand(ctOut),
                                   Wrap(Degree(S.mem[op0]) + Degree(S.mem[op1]))),
             op0, op1, ctOut)

\* switchKeys(c2, evakey, ctOut) of Scheme-I: the loop of contextQ with
\* c2qiw = polypool[3], on the accumulators ctOut.value[0], ctOut.value[1].
bfvSwitchKeysLoop(S, c2, evakey, ctOut) ==
    KeySwitchLoop(S, QRows, evakey, c2, Ref(RING, 3), Ref(ctOut, 0), Ref(ctOut, 1))

\* A contextQ transform of the polynomial rIn into rOut.
NTTQ(S, rIn, rOut) == RingApply(S, QRows, rIn, rIn, rOut, NTTRow)

InvNTTQ(S, rIn, rOut) == RingApply(S, QRows, rIn, rIn, rOut, InvNTTRow)

\* contextQ.InvNTT of components 0 and 1 of the receiver, in place.
InvNTTQ2(S, ctOut) ==
    InvNTTQ(InvNTTQ(S, Ref(ctOut, 0), Ref(ctOut, 0)), Ref(ctOut, 1), Ref(ctOut, 1))

\* switchKeysInNTTDomain(el0, el1, switchkey, ctOut).
switchKeysInNTTDomain(S, el0, el1, switchkey, ctOut) ==
    bfvSwitchKeysLoop(
        InvNTTQ(ContextCopy2(S, QRows, el0, el1, Ref(ctOut, 0), Ref(ctOut, 1)),
                el1, Ref(RING, 1)),
        Ref(RING, 1), switchkey, ctOut)

\* switchKeysOutOfNTTDomain(el0, el1, switchKey, ctOut).
switchKeysOutOfNTTDomain(S, el0, el1, switchKey, ctOut) ==
    InvNTTQ2(
        bfvSwitchKeysLoop(
            NTTQ(NTTQ(ContextCopy(S, QRows, el1, Ref(RING, 1)), el0, Ref(ctOut, 0)),
                 el1, Ref(ctOut, 1)),
            Ref(RING, 1), switchKey, ctOut),
        ctOut)

\* The relinearization keys of an EvaluationKey for ciphertexts up to
\* degree maxDegree: evakey.evakey[deg - 2] for deg = 2..maxDegree.
EvaluationKey(maxDegree) ==
    Table(maxDegree - 1, LAMBDA d : SwitchingKey(10 + d, KeyBitDecomp))

\* ctOut.SetValue(ctOut.value[:2]).
TruncateToDegree1(S, ctOut) ==
    IF ~Running(S) THEN S
    ELSE [S EXCEPT !.mem[ctOut].value = SubSeq(S.mem[ctOut].value, 1, 2)]

\* relinearize(ct0, evakey, ctOut): the r-th iteration of the loop handles
\* the component deg = deg0 - r.
relinearize(S, ct0, evakey, ctOut) ==
    InvNTTQ2(
        TruncateToDegree1(
            ForRange(NTTQ(NTTQ(S, Ref(ct0, 0), Ref(ctOut, 0)), Ref(ct0, 1), Ref(ctOut, 1)),
                     0, Degree(S.mem[ct0]) - 1, LAMBDA T, r :
                         IF ~Running(T) THEN T
                         ELSE IF ~ValidRef(T, Ref(ct0, Degree(S.mem[ct0]) - r))
                         THEN Fail(T, "panic")
                         ELSE bfvSwitchKeysLoop(T, Ref(ct0, Degree(S.mem[ct0]) - r),
                                                evakey[Degree(S.mem[ct0]) - r - 1], ctOut)),
            ctOut),
        ctOut)

\* Evaluator.Relinearize(ct0, evakey, ctOut) of Scheme-I.  The comparison is
\* made on int(ct0.Degree() - 1), which is -1 for a degree 0.
bfvRelinearize(S, ct0, evakey, ctOut) ==
    IF Degree(S.mem[ct0]) >= 1 /\ Degree(S.mem[ct0]) - 1 > Len(evakey)
    THEN Fail(S, "cannot relinearize -> input ciphertext degree too large to allow relinearization")
    ELSE IF Degree(S.mem[ct0]) < 2 THEN bfvElementCopy(S, ctOut, ct0)
    ELSE relinearize(S, ct0, evakey, ctOut)

\* Evaluator.SwitchKeys(ct0, switchkey, ctOut) of Scheme-I.
bfvSwitchKeys(S, ct0, switchkey, ctOut) ==
    IF Degree(S.mem[ct0]) # 1 \/ Degree(S.mem[ctOut]) # 1
    THEN Fail(S, "cannot switchkeys -> input and output must be of degree 1 to allow key switching")
    ELSE switchKeysOutOfNTTDomain(S, Ref(ct0, 0), Ref(ct0, 1), switchkey, ctOut)

\* The coefficient that context.Permute sends to position u: the i with
\* i * gen = u mod N.
PermuteSource(u, gen) == CHOOSE i \in 0..(N - 1) : (i * gen) % N = u

\* context.Permute on one row (coefficient domain): coefficient i goes to
\* position i * gen mod N, negated when i * gen mod 2N is beyond N (spec 4.4).
PermuteRow(a, gen, x) ==
    MakeRow(LAMBDA u :
        IF ((PermuteSource(u, gen) * gen) % (2 * N)) >= N
        THEN (Moduli[x] - (a[PermuteSource(u, gen) + 1] % Moduli[x])) % Moduli[x]
        ELSE a[PermuteSource(u, gen) + 1] % Moduli[x])

\* contextQ.Permute(polIn, gen, polOut).
Permute(S, rIn, gen, rOut) ==
    RingApply(S, QRows, rIn, rIn, rOut, LAMBDA a, b, o, x : PermuteRow(a, gen, x))

\* Evaluator.permute(ct0, isNTT, generator, evakey, ctOut) of Scheme-I.
permute(S, ct0, isNTT, generator, evakey, ctOut) ==
    IF ~Running(S) THEN S
    ELSE
    LET el0 == IF ct0 # ctOut THEN Ref(ctOut, 0) ELSE Ref(RING, 0)
        el1 == IF ct0 # ctOut THEN Ref(ctOut, 1) ELSE Ref(RING, 1)
    IN  IF isNTT
        THEN switchKeysInNTTDomain(
                 PermuteNTT(PermuteNTT(S, Ref(ct0, 0), generator, el0),
                            Ref(ct0, 1), generator, el1),
                 el0, el1, evakey, ctOut)
        ELSE switchKeysOutOfNTTDomain(
                 Permute(Permute(S, Ref(ct0, 0), generator, el0),
                         Ref(ct0, 1), generator, el1),
                 el0, el1, evakey, ctOut)

\* rotateColumnsPow2, last part: the receiver leaves the NTT domain when
\* the input was not in it.
bfvLeaveNTT(S, ctOut, ntt) == IF ntt THEN S ELSE InvNTTQ2(S, ctOut)

\* Evaluator.rotateColumnsPow2(ct0, generator, k, evakeyRotCol, ctOut) of
\* Scheme-I (dir tells the left or the right table).
bfvRotateColumnsPow2(S, ct0, generator, k, dir, ctOut) ==
    IF ~Running(S) THEN S
    ELSE
    LET gens[b \in 0..BitLen(k)] ==
            IF b = 0 THEN generator ELSE SquareGenerator(N, gens[b - 1])
    IN  bfvLeaveNTT(
            ForRange(IF S.mem[ct0].isNTT THEN bfvElementCopy(S, ctOut, ct0)
                     ELSE NTTQ(NTTQ(S, Ref(ct0, 0), Ref(ctOut, 0)),
                               Ref(ct0, 1), Ref(ctOut, 1)),
                     0, BitLen(k), LAMBDA T, b :
                         IF (k \div (2 ^ b)) % 2 = 1
                         THEN permute(T, ctOut, TRUE, gens[b], RotationKey(dir, 2 ^ b), ctOut)
                         ELSE T),
            ctOut, S.mem[ct0].isNTT)

\* Evaluator.RotateColumns(ct0, k, evakey, ctOut) of Scheme-I: the copy of
\* a rotation by 0 comes before the check of the degrees.
bfvRotateColumns(S, ct0, k0, evakey, ctOut) ==
    LET k == k0 % (N \div 2)
        left == RotatesLeft(N, k)
    IN  IF k = 0 THEN bfvElementCopy(S, ctOut, ct0)
        ELSE IF Degree(S.mem[ct0]) # 1 \/ Degree(S.mem[ctOut]) # 1
        THEN Fail(S, "cannot rotate -> input and or output must be of degree 1")
        ELSE IF k \in evakey.left
        THEN permute(S, ct0, S.mem[ct0].isNTT, GalElRotColLeft(k), RotationKey(0, k), ctOut)
        ELSE IF HasPow2Rotations(evakey)
        THEN bfvRotateColumnsPow2(S, ct0, IF left THEN GaloisGen ELSE GaloisGenInv,
                                  IF left THEN k ELSE (N \div 2) - k,
                                  IF left THEN 0 ELSE 1, ctOut)
        ELSE Fail(S, "cannot rotate -> specific rotation and pow2 rotations have not been generated")

\* ------------------------------------------------------------------------
\* The collective key switch (dbfv/collective_KS.go)
\* ------------------------------------------------------------------------

\* The reduction point of the loop of Aggregate: i&7 == 1.
AggregateReducePoint(i) == i % 8 = 1

\* The test after the loop: len(h)&7 != 7.
AggregateFinalReduce(n) == n % 8 # 7

\* CKS.Aggregate(c0, h) on polynomials held as sequences of QRows rows: one
\* step of the loop, for the share of index i (0-based).
AggregateStep(c0, hi, i) ==
    LET sum == Table(QRows, LAMBDA x : AddNoModRow(c0[x], hi[x], c0[x], x))
    IN  IF AggregateReducePoint(i)
        THEN Table(QRows, LAMBDA x : ReduceRow(sum[x], sum[x], sum[x], x))
        ELSE sum

\* The statement after the loop, n being len(h).
AggregateFinish(c0, n) ==
    IF AggregateFinalReduce(n)
    THEN Table(QRows, LAMBDA x : ReduceRow(c0[x], c0[x], c0[x], x))
    ELSE c0

\* ------------------------------------------------------------------------
\* The evaluators as a state machine
\* ------------------------------------------------------------------------

\* context: the tables of the ring contexts (never written after Init);
\* scheme: "A" (ckks), "I" (bfv), or the engine under study in the step-level
\*         specifications ("KS", "CKS");
\* mem:    the elements (slots 0..NSlots+3);
\* pre:    the caller's elements as they were before the last call;
\* last:   the last call: its name, operands and outcome ("ok", an error
\*         text, or "panic"; "none" before the first call);
\* calls:  the number of calls made;
\* ks:     the position of a key switch run step by step;
\* cks:    the position of a CKS.Aggregate run step by step.
\* The number of evaluator calls of a run.
MaxCalls == 1

\* The largest degree of a caller's operand.
MaxDegree == 2

\* Residue j of row i of component c of the fresh operand of slot s: some
\* canonical residue.
Data(s, c, i, j) == (1 + 7 * s + 3 * c + 5 * i + 11 * j + 3 * i * j) % Moduli[i]

FreshPoly(s, c, rows) ==
    Table(rows, LAMBDA i : MakeRow(LAMBDA j : Data(s, c, i, j)))

\* An element of Scheme-A as encoding or encryption leaves it.
ckksOperand(s, degree, level, scale, isNTT) ==
    [value |-> Table(degree + 1, LAMBDA c : FreshPoly(s, c - 1, level + 1)),
     scale |-> scale, currentModulus |-> ModulusBigint(level), isNTT |-> isNTT]

\* ckkscontext.NewCiphertext(degree, level, scale) / a pool of polynomials.
ZeroElement(degree, rows, scale, isNTT) ==
    [value |-> Table(degree + 1, LAMBDA c : NewPoly(rows - 1)),
     scale |-> scale, currentModulus |-> ModulusBigint(rows - 1), isNTT |-> isNTT]

\* An element of Scheme-I: QRows rows, no scale.
bfvOperand(s, degree, isNTT) ==
    [value |-> Table(degree + 1, LAMBDA c : FreshPoly(s, c - 1, QRows)),
     scale |-> 0, currentModulus |-> 0, isNTT |-> isNTT]

\* bfvcontext.NewCiphertextBig(degree): polynomials of contextQP.
bfvBig(degree) ==
    [value |-> Table(degree + 1, LAMBDA c : NewPoly(Levels - 1)),
     scale |-> 0, currentModulus |-> 0, isNTT |-> FALSE]

NoKS == [phase |-> "off"]

NoCKS == [phase |-> "off"]

NoCall == [op |-> "none", op0 |-> NIL, op1 |-> NIL, out |-> NIL, arg |-> 0, res |-> "none"]

\* ckks NewEvaluator: ringpool of 6 polynomials of the top level, ctxpool a
\* ciphertext of degree 1 at the top level and the base scale.
ckksMemory(e1, e2, e3) ==
    [s \in 0..(NSlots + 3) |->
        IF s = POOL THEN ZeroElement(1, Levels, LogScale, TRUE)
        ELSE IF s = 1 THEN e1 ELSE IF s = 2 THEN e2 ELSE IF s = 3 THEN e3
        ELSE IF s = RING THEN ZeroElement(5, Levels, 0, FALSE)
        ELSE ZeroElement(0, 1, 0, FALSE)]

\* bfv NewEvaluator: polypool of 4 polynomials of contextQP, ctxpool of
\* three elements of degree 5 over contextQP.
bfvMemory(e1, e2, e3) ==
    [s \in 0..(NSlots + 3) |->
        IF s = 1 THEN e1 ELSE IF s = 2 THEN e2 ELSE IF s = 3 THEN e3
        ELSE IF s = RING THEN bfvBig(3)
        ELSE bfvBig(5)]

Scales == {LogScale, 2 * LogScale}

InitA ==
    /\ scheme = "A"
    /\ \E d1 \in 0..MaxDegree, l1 \in 0..(Levels - 1), s1 \in Scales, n1 \in BOOLEAN,
          d2 \in 0..1, l2 \in 1..(Levels - 1), s2 \in Scales,
          d3 \in 0..MaxDegree, l3 \in 0..(Levels - 1) :
          mem = ckksMemory(ckksOperand(1, d1, l1, s1, n1),
                           ckksOperand(2, d2, l2, s2, TRUE),
                           ckksOperand(3, d3, l3, LogScale, TRUE))

InitI ==
    /\ scheme = "I"
    /\ \E d1 \in 0..MaxDegree, n1 \in BOOLEAN, d2 \in 0..MaxDegree, d3 \in 0..(2 * MaxDegree) :
          mem = bfvMemory(bfvOperand(1, d1, n1), bfvOperand(2, d2, FALSE),
                          bfvOperand(3, d3, FALSE))

Init ==
    /\ context = GenNTTParams
    /\ InitA \/ InitI
    /\ pre = [s \in Slots |-> mem[s]]
    /\ last = NoCall
    /\ calls = 0
    /\ ks = NoKS
    /\ cks = NoCKS

\* The handler state at the start of a call.
Start == [mem |-> mem, err |-> ""]

\* A call of the evaluator with the outcome R of its handler.  A panic ends
\* the run.
Call(op, a, b, o, arg, R) ==
    /\ calls < MaxCalls
    /\ last.res # "panic"
    /\ mem' = R.mem
    /\ pre' = [s \in Slots |-> mem[s]]
    /\ last' = [op |-> op, op0 |-> a, op1 |-> b, out |-> o, arg |-> arg,
                res |-> IF R.err = "" THEN "ok" ELSE R.err]
    /\ calls' = calls + 1
    /\ UNCHANGED <<context, scheme, ks, cks>>

\* The operands of a binary call, <<op0, op1, receiver>>: distinct elements,
\* the receiver one of the inputs, the same input twice, and nil operands.
BinaryOperands ==
    {<<1, 2, 3>>, <<1, 2, 1>>, <<1, 2, 2>>, <<1, 1, 3>>, <<1, 1, 1>>, <<2, 1, 3>>,
     <<NIL, 2, 3>>, <<TYPEDNIL, 2, 3>>, <<1, NIL, 3>>, <<1, TYPEDNIL, 3>>, <<1, 2, NIL>>}

\* The operands of a unary call, <<input, receiver>>.
UnaryOperands == {<<1, 3>>, <<1, 1>>, <<3, 1>>}

\* The rotation-key tables handed to RotateColumns.
RotationKeyTables ==
    {RotationKeys({1, 2}, {1, 2}), RotationKeys({3}, {}), RotationKeys({}, {}),
     RotationKeys({1, 2}, {})}

\* The relinearization key handed to MulRelin and Relinearize of Scheme-A.
RelinKey == SwitchingKey(1, KeyBitDecomp)

CkksAdd ==
    /\ scheme = "A"
    /\ \E p \in BinaryOperands :
          Call("Add", p[1], p[2], p[3], 0, ckksAdd(Start, p[1], p[2], p[3]))

CkksAddNoMod ==
    /\ scheme = "A"
    /\ \E p \in BinaryOperands :
          Call("AddNoMod", p[1], p[2], p[3], 0, ckksAddNoMod(Start, p[1], p[2], p[3]))

CkksSub ==
    /\ scheme = "A"
    /\ \E p \in BinaryOperands :
          Call("Sub", p[1], p[2], p[3], 0, ckksSub(Start, p[1], p[2], p[3]))

CkksSubNoMod ==
    /\ scheme = "A"
    /\ \E p \in BinaryOperands :
          Call("SubNoMod", p[1], p[2], p[3], 0, ckksSubNoMod(Start, p[1], p[2], p[3]))

CkksMulRelin ==
    /\ scheme = "A"
    /\ \E p \in BinaryOperands, withKey \in BOOLEAN :
          Call("MulRelin", p[1], p[2], p[3], IF withKey THEN 1 ELSE 0,
               ckksMulRelin(Start, p[1], p[2], IF withKey THEN RelinKey ELSE NilKey, p[3]))

CkksRelinearize ==
    /\ scheme = "A"
    /\ \E p \in UnaryOperands :
          Call("Relinearize", p[1], NIL, p[2], 0, ckksRelinearize(Start, p[1], RelinKey, p[2]))

CkksSwitchKeys ==
    /\ scheme = "A"
    /\ \E p \in UnaryOperands :
          Call("SwitchKeys", p[1], NIL, p[2], 0,
               ckksSwitchKeys(Start, p[1], SwitchingKey(0, KeyBitDecomp), p[2]))

CkksRotateColumns ==
    /\ scheme = "A"
    /\ \E p \in UnaryOperands, k \in 0..((N \div 2) - 1), t \in RotationKeyTables :
          Call("RotateColumns", p[1], NIL, p[2], k, ckksRotateColumns(Start, p[1], k, t, p[2]))

CkksRescale ==
    /\ scheme = "A"
    /\ \E p \in UnaryOperands :
          Call("Rescale", p[1], NIL, p[2], 0, ckksRescale(Start, p[1], p[2]))

CkksDropLevel ==
    /\ scheme = "A"
    /\ \E ct \in {1, 3}, levels \in 0..Levels :
          Call("DropLevel", ct, NIL, ct, levels, ckksDropLevel(Start, ct, levels))

BfvAdd ==
    /\ scheme = "I"
    /\ \E p \in BinaryOperands :
          Call("Add", p[1], p[2], p[3], 0, bfvAdd(Start, p[1], p[2], p[3]))

BfvAddNoMod ==
    /\ scheme = "I"
    /\ \E p \in BinaryOperands :
          Call("AddNoMod", p[1], p[2], p[3], 0, bfvAddNoMod(Start, p[1], p[2], p[3]))

BfvSub ==
    /\ scheme = "I"
    /\ \E p \in BinaryOperands :
          Call("Sub", p[1], p[2], p[3], 0, bfvSub(Start, p[1], p[2], p[3]))

BfvSubNoMod ==
    /\ scheme = "I"
    /\ \E p \in BinaryOperands :
          Call("SubNoMod", p[1], p[2], p[3], 0, bfvSubNoMod(Start, p[1], p[2], p[3]))

\* op0 of Mul is a *Ciphertext: a nil one is a nil pointer, not a nil interface.
BfvMul ==
    /\ scheme = "I"
    /\ \E p \in BinaryOperands :
          /\ p[1] # TYPEDNIL
          /\ Call("Mul", p[1], p[2], p[3], 0, bfvMul(Start, p[1], p[2], p[3]))

BfvRelinearize ==
    /\ scheme = "I"
    /\ \E p \in UnaryOperands, maxDegree \in 1..(MaxDegree + 1) :
          Call("Relinearize", p[1], NIL, p[2], maxDegree,
               bfvRelinearize(Start, p[1], EvaluationKey(maxDegree), p[2]))

BfvSwitchKeys ==
    /\ scheme = "I"
    /\ \E p \in UnaryOperands :
          Call("SwitchKeys", p[1], NIL, p[2], 0,
               bfvSwitchKeys(Start, p[1], SwitchingKey(0, KeyBitDecomp), p[2]))

BfvRotateColumns ==
    /\ scheme = "I"
    /\ \E p \in UnaryOperands, k \in 0..((N \div 2) - 1), t \in RotationKeyTables :
          Call("RotateColumns", p[1], NIL, p[2], k, bfvRotateColumns(Start, p[1], k, t, p[2]))

Next ==
    \/ CkksAdd \/ CkksAddNoMod \/ CkksSub \/ CkksSubNoMod \/ CkksMulRelin
    \/ CkksRelinearize \/ CkksSwitchKeys \/ CkksRotateColumns \/ CkksRescale
    \/ CkksDropLevel
    \/ BfvAdd \/ BfvAddNoMod \/ BfvSub \/ BfvSubNoMod \/ BfvMul
    \/ BfvRelinearize \/ BfvSwitchKeys \/ BfvRotateColumns

Spec == Init /\ [][Next]_vars

\* ------------------------------------------------------------------------
\* Rescale of Scheme-A with its loop run step by step
\* ------------------------------------------------------------------------

\* The largest scale of an input of Rescale.
MaxScale == 21

\* ks.phase: "idle" before the call, "loop" at the test of the loop, "done"
\* after the return; ks.steps: the iterations of the loop made so far.
InitRescale ==
    /\ context = GenNTTParams
    /\ scheme = "A"
    /\ \E d1 \in 0..MaxDegree, l1 \in 0..(Levels - 1), s1 \in LogScale..MaxScale,
          n1 \in BOOLEAN, d3 \in 0..MaxDegree, l3 \in 0..(Levels - 1) :
          mem = ckksMemory(ckksOperand(1, d1, l1, s1, n1),
                           ckksOperand(2, 1, Levels - 1, LogScale, TRUE),
                           ckksOperand(3, d3, l3, LogScale, TRUE))
    /\ pre = [s \in Slots |-> mem[s]]
    /\ last = NoCall
    /\ calls = 0
    /\ ks = [phase |-> "idle", steps |-> 0]
    /\ cks = NoCKS

\* Rescale(ct0, c1) is called: the checks and the copy, up to the loop.
RescaleStart ==
    /\ ks.phase = "idle"
    /\ calls < MaxCalls
    /\ \E p \in UnaryOperands :
          LET R == ckksRescaleEnter(Start, p[1], p[2])
          IN  /\ mem' = R.mem
              /\ pre' = [s \in Slots |-> mem[s]]
              /\ last' = [op |-> "Rescale", op0 |-> p[1], op1 |-> NIL, out |-> p[2],
                          arg |-> 0, res |-> IF R.err = "" THEN "running" ELSE R.err]
              /\ ks' = [phase |-> IF R.err = "" THEN "loop" ELSE "done", steps |-> 0]
    /\ calls' = calls + 1
    /\ UNCHANGED <<context, scheme, cks>>

\* The test of the loop holds: one iteration.
RescaleIterate ==
    /\ ks.phase = "loop"
    /\ ~HasContext(Level(mem[last.out])) \/ ckksRescaleCondition(Start, last.out)
    /\ LET R == IF ~HasContext(Level(mem[last.out])) THEN Fail(Start, "panic")
                ELSE ckksRescaleIteration(Start, last.out)
       IN  /\ mem' = R.mem
           /\ last' = [last EXCEPT !.res = IF R.err = "" THEN "running" ELSE R.err]
           /\ ks' = [phase |-> IF R.err = "" THEN "loop" ELSE "done", steps |-> ks.steps + 1]
    /\ UNCHANGED <<context, scheme, pre, calls, cks>>

\* The test of the loop fails: Rescale returns nil.
RescaleReturn ==
    /\ ks.phase = "loop"
    /\ HasContext(Level(mem[last.out]))
    /\ ~ckksRescaleCondition(Start, last.out)
    /\ last' = [last EXCEPT !.res = "ok"]
    /\ ks' = [ks EXCEPT !.phase = "done"]
    /\ UNCHANGED <<context, scheme, mem, pre, calls, cks>>

NextRescale == RescaleStart \/ RescaleIterate \/ RescaleReturn

SpecRescale == InitRescale /\ [][NextRescale]_vars

\* ------------------------------------------------------------------------
\* RotateColumns of both schemes with the key table held by the caller
\* ------------------------------------------------------------------------

\* The tables a caller holds: those of RotationKeyTables, and one with the
\* specific key of the rotation by 3 next to every power-of-two key.
CallerKeyTables == RotationKeyTables \cup {RotationKeys({1, 2, 3}, {1, 2})}

\* The amounts k handed to RotateColumns: below and above N/2.
RotationAmounts == 0..(N - 1)

\* ks.evakey: the RotationKeys the caller holds and hands to RotateColumns.
InitRotate ==
    /\ context = GenNTTParams
    /\ \/ /\ scheme = "A"
          /\ \E d1 \in 0..MaxDegree, l1 \in 0..(Levels - 1),
                d3 \in 0..MaxDegree, l3 \in 0..(Levels - 1) :
                mem = ckksMemory(ckksOperand(1, d1, l1, LogScale, TRUE),
                                 ckksOperand(2, 1, Levels - 1, LogScale, TRUE),
                                 ckksOperand(3, d3, l3, LogScale, TRUE))
       \/ /\ scheme = "I"
          /\ \E d1 \in 0..MaxDegree, n1 \in BOOLEAN, d3 \in 0..MaxDegree :
                mem = bfvMemory(bfvOperand(1, d1, n1), bfvOperand(2, 1, FALSE),
                                bfvOperand(3, d3, FALSE))
    /\ pre = [s \in Slots |-> mem[s]]
    /\ last = NoCall
    /\ calls = 0
    /\ \E t \in CallerKeyTables : ks = [phase |-> "idle", evakey |-> t]
    /\ cks = NoCKS

\* RotateColumns(ct0, k, evakey, ctOut) of Scheme-A with the caller's table.
CkksRotateWithTable ==
    /\ scheme = "A"
    /\ ks.phase = "idle"
    /\ \E p \in UnaryOperands, k \in RotationAmounts :
          /\ mem' = ckksRotateColumns(Start, p[1], k, ks.evakey, p[2]).mem
          /\ last' = [op |-> "RotateColumns", op0 |-> p[1], op1 |-> NIL, out |-> p[2],
                      arg |-> k,
                      res |-> IF ckksRotateColumns(Start, p[1], k, ks.evakey, p[2]).err = ""
                              THEN "ok"
                              ELSE ckksRotateColumns(Start, p[1], k, ks.evakey, p[2]).err]
    /\ pre' = [s \in Slots |-> mem[s]]
    /\ calls' = calls + 1
    /\ ks' = [ks EXCEPT !.phase = "done"]
    /\ UNCHANGED <<context, scheme, cks>>

\* RotateColumns(ct0, k, evakey, ctOut) of Scheme-I with the caller's table.
BfvRotateWithTable ==
    /\ scheme = "I"
    /\ ks.phase = "idle"
    /\ \E p \in UnaryOperands, k \in RotationAmounts :
          /\ mem' = bfvRotateColumns(Start, p[1], k, ks.evakey, p[2]).mem
          /\ last' = [op |-> "RotateColumns", op0 |-> p[1], op1 |-> NIL, out |-> p[2],
                      arg |-> k,
                      res |-> IF bfvRotateColumns(Start, p[1], k, ks.evakey, p[2]).err = ""
                              THEN "ok"
                              ELSE bfvRotateColumns(Start, p[1], k, ks.evakey, p[2]).err]
    /\ pre' = [s \in Slots |-> mem[s]]
    /\ calls' = calls + 1
    /\ ks' = [ks EXCEPT !.phase = "done"]
    /\ UNCHANGED <<context, scheme, cks>>

NextRotate == CkksRotateWithTable \/ BfvRotateWithTable

SpecRotate == InitRotate /\ [][NextRotate]_vars

\* ------------------------------------------------------------------------
\* The power-of-two fallback of RotateColumns, its loop run step by step, in
\* rings of several degrees.  The control of RotateColumns and of
\* rotateColumnsPow2 is the same in both schemes; each permute-and-key-switch
\* is recorded by its generator and by the index of its key.
\* ------------------------------------------------------------------------

\* The largest ring degree of the fallback.
MaxRingDegree == 32

RingDegrees == {n \in N..MaxRingDegree : \E b \in 1..BitLen(n) : n = 2 ^ b}

\* The inverse of the generator modulo 2n (genInv of a context of degree n).
GenInvOf(n) == CHOOSE g \in 1..(2 * n - 1) : (g * GaloisGen) % (2 * n) = 1

\* The powers of two i = 1; i < n/2; i <<= 1 of a ring of degree n.
Pow2RotationsOf(n) == {i \in 1..((n \div 2) - 1) : \E b \in 0..BitLen(n) : i = 2 ^ b}

\* ks.n: the ring degree; ks.k0: the amount asked; ks.evakey: the table,
\* with the left and right keys of every power of two; ks.route: the branch
\* of RotateColumns; ks.dir, ks.magnitude: the direction (0 left, 1 right)
\* and the k handed to rotateColumnsPow2; ks.k, ks.generator, ks.evakeyIndex:
\* the variables of its loop; ks.steps: the calls of permute made; ks.galEl:
\* the product of their generators modulo 2n; ks.used: the indexes of
\* their keys.
InitPow2 ==
    /\ context = GenNTTParams
    /\ scheme \in {"A", "I"}
    /\ mem = IF scheme = "A"
             THEN ckksMemory(ckksOperand(1, 1, Levels - 1, LogScale, TRUE),
                             ckksOperand(2, 1, Levels - 1, LogScale, TRUE),
                             ckksOperand(3, 1, Levels - 1, LogScale, TRUE))
             ELSE bfvMemory(bfvOperand(1, 1, FALSE), bfvOperand(2, 1, FALSE),
                            bfvOperand(3, 1, FALSE))
    /\ pre = [s \in Slots |-> mem[s]]
    /\ last = NoCall
    /\ calls = 0
    /\ \E n \in RingDegrees, k0 \in 0..(MaxRingDegree - 1) :
          /\ k0 < n
          /\ ks = [phase |-> "idle", n |-> n, k0 |-> k0,
                   evakey |-> RotationKeys(Pow2RotationsOf(n), Pow2RotationsOf(n)),
                   route |-> "none", dir |-> 0, magnitude |-> 0, k |-> 0,
                   generator |-> 0, evakeyIndex |-> 0, steps |-> 0, galEl |-> 1,
                   used |-> {}]
    /\ cks = NoCKS

\* RotateColumns up to the loop of rotateColumnsPow2.
Pow2Enter ==
    /\ ks.phase = "idle"
    /\ LET half == ks.n \div 2
           k == ks.k0 % half
           left == RotatesLeft(ks.n, k)
       IN  ks' = IF k = 0
                 THEN [ks EXCEPT !.phase = "done", !.route = "copy"]
                 ELSE IF k \in ks.evakey.left
                 THEN [ks EXCEPT !.phase = "done", !.route = "specific", !.steps = 1,
                                 !.galEl = ModExp(GaloisGen, k, 2 * ks.n), !.used = {k}]
                 ELSE IF \A i \in Pow2RotationsOf(ks.n) :
                             i \in ks.evakey.left /\ i \in ks.evakey.right
                 THEN [ks EXCEPT !.phase = "loop", !.route = "pow2",
                                 !.dir = IF left THEN 0 ELSE 1,
                                 !.magnitude = IF left THEN k ELSE half - k,
                                 !.k = IF left THEN k ELSE half - k,
                                 !.generator = IF left THEN GaloisGen ELSE GenInvOf(ks.n),
                                 !.evakeyIndex = 1]
                 ELSE [ks EXCEPT !.phase = "done", !.route = "nokeys"]
    /\ UNCHANGED <<context, scheme, mem, pre, last, calls, cks>>

\* One iteration of the loop of rotateColumnsPow2 (for k > 0).
Pow2Iterate ==
    /\ ks.phase = "loop"
    /\ ks.k > 0
    /\ ks' = [ks EXCEPT
                 !.steps = IF ks.k % 2 = 1 THEN @ + 1 ELSE @,
                 !.galEl = IF ks.k % 2 = 1 THEN (@ * ks.generator) % (2 * ks.n) ELSE @,
                 !.used = IF ks.k % 2 = 1 THEN @ \cup {ks.evakeyIndex} ELSE @,
                 !.generator = SquareGenerator(ks.n, @),
                 !.evakeyIndex = 2 * @,
                 !.k = @ \div 2]
    /\ UNCHANGED <<context, scheme, mem, pre, last, calls, cks>>

\* The loop is over: rotateColumnsPow2 and RotateColumns return.
Pow2Return ==
    /\ ks.phase = "loop"
    /\ ks.k = 0
    /\ ks' = [ks EXCEPT !.phase = "done"]
    /\ UNCHANGED <<context, scheme, mem, pre, last, calls, cks>>

NextPow2 == Pow2Enter \/ Pow2Iterate \/ Pow2Return

SpecPow2 == InitPow2 /\ [][NextPow2]_vars

\* ------------------------------------------------------------------------
\* The key switch, its double loop run step by step
\* ------------------------------------------------------------------------

\* The largest bitDecomp of a switching key of the step-level run.
MaxBitDecomp == 5

\* A switching key whose rows of digits are all empty.
EmptyKey == [bitDecomp |-> 1, evakey |-> Table(Levels, LAMBDA i : <<>>)]

StepKeys == {SwitchingKey(1, b) : b \in 1..MaxBitDecomp} \cup {EmptyKey}

\* ks.evakey: the key; ks.nr: the number of moduli of the context; ks.c2,
\* ks.c2qiw, ks.acc0, ks.acc1: the polynomials of the loop; ks.reduce: the
\* counter of the loop; ks.pending: the accumulations made since the last
\* reduction; ks.longest: the largest value ks.pending ever had;
\* ks.reductions: the reductions made inside the loop; ks.finals: the
\* reductions made after it.
InitKS ==
    /\ context = GenNTTParams
    /\ scheme \in {"A", "I"}
    /\ \E l \in 0..(Levels - 1), evakey \in StepKeys :
          /\ scheme = "I" => l = QRows - 1
          /\ mem = IF scheme = "A"
                   THEN ckksMemory(ckksOperand(1, 1, l, LogScale, TRUE),
                                   ckksOperand(2, 1, l, LogScale, TRUE),
                                   ckksOperand(3, 1, l, LogScale, TRUE))
                   ELSE bfvMemory(bfvOperand(1, 1, FALSE), bfvOperand(2, 1, FALSE),
                                  bfvOperand(3, 1, FALSE))
          /\ ks = [phase |-> "enter", evakey |-> evakey, nr |-> l + 1,
                   c2 |-> IF scheme = "A" THEN Ref(RING, 4) ELSE Ref(1, 1),
                   c2qiw |-> IF scheme = "A" THEN Ref(RING, 5) ELSE Ref(RING, 3),
                   acc0 |-> Ref(3, 0), acc1 |-> Ref(3, 1),
                   reduce |-> 0, pending |-> 0, longest |-> 0,
                   reductions |-> 0, finals |-> 0]
    /\ pre = [s \in Slots |-> mem[s]]
    /\ last = NoCall
    /\ calls = 0
    /\ cks = NoCKS

\* The statements before the loops: ckks takes cx = ct1.value[1] out of the
\* NTT domain into c2; bfv is handed c2.
KSEnter ==
    /\ ks.phase = "enter"
    /\ mem' = IF scheme = "A"
              THEN RingApply(Start, ks.nr, Ref(1, 1), Ref(1, 1), ks.c2, InvNTTRow).mem
              ELSE mem
    /\ ks' = [ks EXCEPT !.phase = "loop"]
    /\ UNCHANGED <<context, scheme, pre, last, calls, cks>>

\* One iteration of the inner loop.
KSDigit ==
    /\ ks.phase = "loop"
    /\ ks.reduce < Len(DigitSchedule(ks.evakey, ks.nr))
    /\ mem' = KeySwitchDigit(Start, ks.nr, ks.evakey, ks.c2, ks.c2qiw,
                             ks.acc0, ks.acc1, ks.reduce).mem
    /\ ks' = [ks EXCEPT
                 !.reduce = Wrap(@ + 1),
                 !.pending = IF ReducePoint(ks.reduce) THEN 0 ELSE @ + 1,
                 !.longest = IF @ < ks.pending + 1 THEN ks.pending + 1 ELSE @,
                 !.reductions = IF ReducePoint(ks.reduce) THEN @ + 1 ELSE @]
    /\ UNCHANGED <<context, scheme, pre, last, calls, cks>>

\* The loops are over: the final test, and the return.
KSFinish ==
    /\ ks.phase = "loop"
    /\ ks.reduce = Len(DigitSchedule(ks.evakey, ks.nr))
    /\ mem' = KeySwitchFinish(Start, ks.nr, ks.acc0, ks.acc1, ks.reduce).mem
    /\ ks' = [ks EXCEPT
                 !.phase = "done",
                 !.pending = IF FinalReduce(ks.reduce) THEN 0 ELSE @,
                 !.finals = IF FinalReduce(ks.reduce) THEN @ + 1 ELSE @]
    /\ UNCHANGED <<context, scheme, pre, last, calls, cks>>

NextKS == KSEnter \/ KSDigit \/ KSFinish

SpecKS == InitKS /\ [][NextKS]_vars

\* ------------------------------------------------------------------------
\* CKS.Aggregate, its loop run step by step
\* ------------------------------------------------------------------------

\* The largest number of shares of an Aggregate.
MaxShares == 9

\* The parties whose shares are aggregated.
Parties == 1..2

\* The share of party p: canonical residues.
ShareCoeff(p, x, j) == (Moduli[x] - 1 - p * (j + x)) % Moduli[x]

SharePoly(p) == Table(QRows, LAMBDA x : MakeRow(LAMBDA j : ShareCoeff(p, x, j)))

\* cks.c0: the polynomial c0; cks.start: c0 as it was handed; cks.h: the
\* parties of the shares h, in order; cks.i: the index of the loop;
\* cks.pending: the additions made since the last reduction; cks.longest:
\* the largest value cks.pending ever had.
InitCKS ==
    /\ context = GenNTTParams
    /\ scheme = "I"
    /\ mem = bfvMemory(bfvOperand(1, 1, FALSE), bfvOperand(2, 1, FALSE),
                       bfvOperand(3, 1, FALSE))
    /\ pre = [s \in Slots |-> mem[s]]
    /\ last = NoCall
    /\ calls = 0
    /\ ks = NoKS
    /\ \E n \in 1..MaxShares : \E h \in [1..n -> Parties] :
          cks = [phase |-> "loop", c0 |-> mem[1].value[1], start |-> mem[1].value[1],
                 h |-> h, i |-> 0, pending |-> 0, longest |-> 0]

\* One iteration of the loop of Aggregate.
AggregateIterate ==
    /\ cks.phase = "loop"
    /\ cks.i < Len(cks.h)
    /\ cks' = [cks EXCEPT
                  !.c0 = AggregateStep(@, SharePoly(cks.h[cks.i + 1]), cks.i),
                  !.i = @ + 1,
                  !.pending = IF AggregateReducePoint(cks.i) THEN 0 ELSE @ + 1,
                  !.longest = IF @ < cks.pending + 1 THEN cks.pending + 1 ELSE @]
    /\ UNCHANGED <<context, scheme, mem, pre, last, calls, ks>>

\* The loop is over: the final test, and the return.
AggregateReturn ==
    /\ cks.phase = "loop"
    /\ cks.i = Len(cks.h)
    /\ cks' = [cks EXCEPT
                  !.phase = "done",
                  !.c0 = AggregateFinish(@, Len(cks.h)),
                  !.pending = IF AggregateFinalReduce(Len(cks.h)) THEN 0 ELSE @]
    /\ UNCHANGED <<context, scheme, mem, pre, last, calls, ks>>

NextCKS == AggregateIterate \/ AggregateReturn

SpecCKS == InitCKS /\ [][NextCKS]_vars

\* ------------------------------------------------------------------------
\* Two calls in a row on one evaluator: the second call finds the pools as
\* the first one left them
\* ------------------------------------------------------------------------

\* The table handed to RotateColumns in the two-call runs.
ScratchTable == RotationKeys({1, 2}, {1, 2})

\* The calls of the two-call runs: [op, op0, op1, out, arg].
ScratchCall(op, a, b, o, arg) == [op |-> op, op0 |-> a, op1 |-> b, out |-> o, arg |-> arg]

ScratchCalls ==
    {ScratchCall(op, p[1], p[2], p[3], 0) :
        op \in {"Add", "Sub"}, p \in {<<1, 2, 3>>, <<1, 2, 1>>, <<2, 1, 1>>, <<3, 1, 3>>}}
    \cup {ScratchCall("Mul", p[1], p[2], p[3], key) :
        p \in {<<1, 2, 3>>, <<1, 1, 3>>, <<2, 1, 3>>}, key \in {0, 1}}
    \cup {ScratchCall("Relinearize", p[1], NIL, p[2], 0) : p \in {<<3, 1>>, <<3, 3>>}}
    \cup {ScratchCall("SwitchKeys", p[1], NIL, p[2], 0) : p \in {<<1, 2>>, <<1, 1>>, <<2, 1>>}}
    \cup {ScratchCall("RotateColumns", p[1], NIL, p[2], k) :
        p \in {<<1, 2>>, <<1, 1>>, <<2, 1>>}, k \in {1, 3}}
    \cup {ScratchCall("Rescale", p[1], NIL, p[2], 0) : p \in {<<1, 2>>, <<1, 1>>}}

\* The handler of the call c, run from S.  "Mul" is MulRelin of Scheme-A
\* (with the key when c.arg = 1) and Mul of Scheme-I; Rescale is of
\* Scheme-A only.
Handle(S, c) ==
    IF scheme = "A"
    THEN CASE c.op = "Add" -> ckksAdd(S, c.op0, c.op1, c.out)
           [] c.op = "Sub" -> ckksSub(S, c.op0, c.op1, c.out)
           [] c.op = "Mul" -> ckksMulRelin(S, c.op0, c.op1,
                                           IF c.arg = 1 THEN RelinKey ELSE NilKey, c.out)
           [] c.op = "Relinearize" -> ckksRelinearize(S, c.op0, RelinKey, c.out)
           [] c.op = "SwitchKeys" ->
                  ckksSwitchKeys(S, c.op0, SwitchingKey(0, KeyBitDecomp), c.out)
           [] c.op = "RotateColumns" ->
                  ckksRotateColumns(S, c.op0, c.arg, ScratchTable, c.out)
           [] OTHER -> ckksRescale(S, c.op0, c.out)
    ELSE CASE c.op = "Add" -> bfvAdd(S, c.op0, c.op1, c.out)
           [] c.op = "Sub" -> bfvSub(S, c.op0, c.op1, c.out)
           [] c.op = "Mul" -> bfvMul(S, c.op0, c.op1, c.out)
           [] c.op = "Relinearize" ->
                  bfvRelinearize(S, c.op0, EvaluationKey(MaxDegree), c.out)
           [] c.op = "SwitchKeys" ->
                  bfvSwitchKeys(S, c.op0, SwitchingKey(0, KeyBitDecomp), c.out)
           [] OTHER -> bfvRotateColumns(S, c.op0, c.arg, ScratchTable, c.out)

Outcome(R) == IF R.err = "" THEN "ok" ELSE R.err

\* The caller's elements of m with the pools as NewEvaluator makes them.
FreshPools(m) ==
    IF scheme = "A" THEN ckksMemory(m[1], m[2], m[3]) ELSE bfvMemory(m[1], m[2], m[3])

\* ks.phase: "first", "second", "done", or "stopped" after a panic of the
\* first call; ks.fresh: the caller's elements and the outcome that the
\* second call gives on an evaluator just made.
InitScratch ==
    /\ context = GenNTTParams
    /\ \/ /\ scheme = "A"
          /\ \E l1 \in 1..(Levels - 1), s1 \in Scales, l3 \in 1..(Levels - 1) :
                mem = ckksMemory(ckksOperand(1, 1, l1, s1, TRUE),
                                 ckksOperand(2, 1, Levels - 1, LogScale, TRUE),
                                 ckksOperand(3, 2, l3, LogScale, TRUE))
       \/ /\ scheme = "I"
          /\ \E n1 \in BOOLEAN :
                mem = bfvMemory(bfvOperand(1, 1, n1), bfvOperand(2, 1, FALSE),
                                bfvOperand(3, 2, FALSE))
    /\ pre = [s \in Slots |-> mem[s]]
    /\ last = NoCall
    /\ calls = 0
    /\ ks = [phase |-> "first", fresh |-> [mem |-> pre, res |-> "none"]]
    /\ cks = NoCKS

\* The first call.
ScratchFirst ==
    /\ ks.phase = "first"
    /\ \E c \in ScratchCalls :
          /\ scheme = "I" => c.op # "Rescale"
          /\ mem' = Handle(Start, c).mem
          /\ last' = [op |-> c.op, op0 |-> c.op0, op1 |-> c.op1, out |-> c.out,
                      arg |-> c.arg, res |-> Outcome(Handle(Start, c))]
          /\ ks' = [ks EXCEPT !.phase = IF Handle(Start, c).err = "panic"
                                        THEN "stopped" ELSE "second"]
    /\ pre' = [s \in Slots |-> mem[s]]
    /\ calls' = calls + 1
    /\ UNCHANGED <<context, scheme, cks>>

\* The second call, and the same call on an evaluator just made.
ScratchSecond ==
    /\ ks.phase = "second"
    /\ \E c \in ScratchCalls :
          /\ scheme = "I" => c.op # "Rescale"
          /\ mem' = Handle(Start, c).mem
          /\ last' = [op |-> c.op, op0 |-> c.op0, op1 |-> c.op1, out |-> c.out,
                      arg |-> c.arg, res |-> Outcome(Handle(Start, c))]
          /\ ks' = [phase |-> "done",
                    fresh |-> LET R == Handle([mem |-> FreshPools(mem), err |-> ""], c)
                              IN  [mem |-> [s \in Slots |-> R.mem[s]], res |-> Outcome(R)]]
    /\ pre' = [s \in Slots |-> mem[s]]
    /\ calls' = calls + 1
    /\ UNCHANGED <<context, scheme, cks>>

NextScratch == ScratchFirst \/ ScratchSecond

SpecScratch == InitScratch /\ [][NextScratch]_vars

\* ------------------------------------------------------------------------
\* NTT and InvNTT of one row, run round by round
\* ------------------------------------------------------------------------

\* The rows handed to NTT: canonical residues of modulus x, among them the
\* zero row, the constant rows and rows with residues q - 1.
NTTInputs(x) ==
    {MakeRow(LAMBDA j : (a + b * j + c * j * j) % Moduli[x]) :
        a \in {0, 1, Moduli[x] - 1}, b \in {0, 1, Moduli[x] - 2}, c \in {0, 3}}
    \cup {MakeRow(LAMBDA j : IF j = u THEN Moduli[x] - 1 ELSE 0) : u \in 0..(N - 1)}

\* ks.x: the modulus; ks.p: the row handed to NTT; ks.a: coeffsOut;
\* ks.m: the m of the next round of NTT, then the h of the next round of
\* InvNTT; ks.ntt: the row NTT returned; ks.phase: "start" before the
\* first round, "fwd" between the rounds of NTT, "ntt" after its final
\* reduction, "inv" between the rounds of InvNTT, "done" after its product
\* by N^-1.
InitNTT ==
    /\ context = GenNTTParams
    /\ scheme = "I"
    /\ mem = bfvMemory(bfvOperand(1, 1, FALSE), bfvOperand(2, 1, FALSE),
                       bfvOperand(3, 1, FALSE))
    /\ pre = [s \in Slots |-> mem[s]]
    /\ last = NoCall
    /\ calls = 0
    /\ cks = NoCKS
    /\ \E x \in 1..Levels : \E p \in NTTInputs(x) :
          ks = [phase |-> "start", x |-> x, p |-> p, a |-> p, m |-> 1, ntt |-> p]

\* One round of butterflies of NTT.
NTTStage ==
    /\ ks.phase \in {"start", "fwd"}
    /\ ks.m < N
    /\ ks' = [ks EXCEPT !.phase = "fwd", !.a = NTTRound(ks.a, ks.m, ks.x), !.m = 2 * ks.m]
    /\ UNCHANGED <<context, scheme, mem, pre, last, calls, cks>>

\* The exact reduction that ends NTT; InvNTT is then called on its result.
NTTFinish ==
    /\ ks.phase = "fwd"
    /\ ks.m >= N
    /\ ks' = [ks EXCEPT !.phase = "ntt", !.a = ReduceRow(ks.a, ks.a, ks.a, ks.x),
                        !.ntt = ReduceRow(ks.a, ks.a, ks.a, ks.x), !.m = N \div 2]
    /\ UNCHANGED <<context, scheme, mem, pre, last, calls, cks>>

\* One round of butterflies of InvNTT.
InvNTTStage ==
    /\ ks.phase \in {"ntt", "inv"}
    /\ ks.m >= 1
    /\ ks' = [ks EXCEPT !.phase = "inv", !.a = InvNTTRound(ks.a, ks.m, ks.x),
                        !.m = ks.m \div 2]
    /\ UNCHANGED <<context, scheme, mem, pre, last, calls, cks>>

\* The product by N^-1 that ends InvNTT.
InvNTTFinish ==
    /\ ks.phase = "inv"
    /\ ks.m < 1
    /\ ks' = [ks EXCEPT !.phase = "done",
                        !.a = MulScalarMontgomeryRow(ks.a, context.nttNInv[ks.x], ks.x)]
    /\ UNCHANGED <<context, scheme, mem, pre, last, calls, cks>>

NextNTT == NTTStage \/ NTTFinish \/ InvNTTStage \/ InvNTTFinish

SpecNTT == InitNTT /\ [][NextNTT]_vars

\* ------------------------------------------------------------------------
\* Ring contexts: SetParameters, GenNTTParams, UnMarshalBinary, Merge
\* (three Context objects; Merge may be handed the same object twice)
\* ------------------------------------------------------------------------

\* The number of calls made on the contexts of a run.
MaxContextCalls == 4

\* The longest modulus list a Merge may build.
MaxModuli == 3

\* IsPrime(q).
IsPrime(q) == q > 1 /\ \A d \in 2..(q - 1) : q % d # 0

\* The test of GenNTTParams on one modulus: prime, and 1 modulo 2N.
AllowsNTTModulus(n, q) == IsPrime(q) /\ q % (2 * n) = 1

\* The parameters handed to SetParameters and encoded for UnMarshalBinary:
\* <<N, Modulus>>.  41 is 1 modulo 8 and not modulo 16; 33 is 1 modulo 16
\* and not prime; 6 is no power of two.
ContextParameters ==
    {<<8, <<17>>>>, <<8, <<97>>>>, <<8, <<41>>>>, <<8, <<33>>>>, <<4, <<41>>>>,
     <<6, <<17>>>>, <<0, <<17>>>>}

\* A Context: N; Modulus, and set when the slice is not nil; allowsNTT;
\* red: the moduli bredParams and mredParams were computed for; crt: the
\* length of CrtReconstruction; ntt: for each row of nttPsi, nttPsiInv and
\* nttNInv, the <<N, q>> it was computed for.
NewContext ==
    [N |-> 0, Modulus |-> <<>>, set |-> FALSE, allowsNTT |-> FALSE, red |-> <<>>,
     crt |-> 0, ntt |-> <<>>]

\* Context.SetParameters(N, Modulus): <<context, outcome>>.
ContextSetParameters(c, n, modulus) ==
    IF n # 0 /\ ~(\E b \in 0..BitLen(n) : n = 2 ^ b)
    THEN <<c, "invalid ring degree (must be a power of 2)">>
    ELSE <<[c EXCEPT !.allowsNTT = FALSE, !.N = n, !.Modulus = modulus, !.set = TRUE,
                     !.red = modulus], "ok">>

\* Context.GenNTTParams(): <<context, outcome>>.
ContextGenNTTParams(c) ==
    IF c.allowsNTT THEN <<c, "ok">>
    ELSE IF c.N = 0 \/ ~c.set THEN <<c, "error : invalid context parameters (missing)">>
    ELSE IF \E i \in 1..Len(c.Modulus) : ~AllowsNTTModulus(c.N, c.Modulus[i])
    THEN <<[c EXCEPT !.allowsNTT = FALSE], "warning : provided modulus does not allow NTT">>
    ELSE <<[c EXCEPT !.crt = Len(c.Modulus),
                     !.ntt = Table(Len(c.Modulus), LAMBDA i : <<c.N, c.Modulus[i]>>),
                     !.allowsNTT = TRUE], "ok">>

\* Context.UnMarshalBinary(data), data being the encoding of <<N, Modulus>>:
\* the errors of SetParameters and of GenNTTParams are dropped.
ContextUnMarshalBinary(c, n, modulus) ==
    <<ContextGenNTTParams(ContextSetParameters(c, n, modulus)[1])[1], "ok">>

\* context.Merge(contextQ, contextP): <<context, outcome>>.  The fields are
\* written one after the other; the loop over context.Modulus indexes
\* CrtReconstruction, the concatenation of the two CrtReconstruction slices,
\* and runs out of it when that is the shorter.
ContextMerge(c, q, p) ==
    IF q.N # p.N THEN <<c, "contexts ring degree to not match">>
    ELSE
    LET c1 == [c EXCEPT !.N = q.N, !.Modulus = q.Modulus \o p.Modulus,
                        !.set = q.set \/ p.set]
        c2 == [c1 EXCEPT !.crt = q.crt + p.crt, !.red = q.red \o p.red]
    IN  IF q.crt + p.crt < Len(c1.Modulus) THEN <<c1, "panic">>
        ELSE IF ~q.allowsNTT /\ ~p.allowsNTT THEN <<[c2 EXCEPT !.allowsNTT = FALSE], "ok">>
        ELSE IF q.allowsNTT /\ p.allowsNTT
        THEN <<[c2 EXCEPT !.ntt = q.ntt \o p.ntt, !.allowsNTT = TRUE], "ok">>
        ELSE <<c2, "context need both to be allowsNTT or not allowsNTT">>

\* ks.ctx: the three contexts; ks.before: they before the last call;
\* ks.steps: the calls made.  last: the last call (op0: the receiver; op1,
\* out: contextQ and contextP of Merge; arg: the N handed).
InitContext ==
    /\ context = GenNTTParams
    /\ scheme = "ring"
    /\ mem = bfvMemory(bfvOperand(1, 1, FALSE), bfvOperand(2, 1, FALSE),
                       bfvOperand(3, 1, FALSE))
    /\ pre = [s \in Slots |-> mem[s]]
    /\ last = NoCall
    /\ calls = 0
    /\ cks = NoCKS
    /\ ks = [phase |-> "ring", ctx |-> [c \in 1..3 |-> NewContext],
             before |-> [c \in 1..3 |-> NewContext], steps |-> 0]

\* A call on context c with the result R = <<context, outcome>>.  A panic
\* ends the run.
ContextCall(op, c, q, p, n, R) ==
    /\ ks.phase = "ring"
    /\ ks.steps < MaxContextCalls
    /\ last.res # "panic"
    /\ ks' = [ks EXCEPT !.ctx[c] = R[1], !.before = ks.ctx, !.steps = @ + 1]
    /\ last' = [op |-> op, op0 |-> c, op1 |-> q, out |-> p, arg |-> n, res |-> R[2]]
    /\ UNCHANGED <<context, scheme, mem, pre, calls, cks>>

CtxSetParameters ==
    \E c \in 1..3, a \in ContextParameters :
        ContextCall("SetParameters", c, NIL, NIL, a[1],
                    ContextSetParameters(ks.ctx[c], a[1], a[2]))

CtxGenNTTParams ==
    \E c \in 1..3 :
        ContextCall("GenNTTParams", c, NIL, NIL, 0, ContextGenNTTParams(ks.ctx[c]))

CtxUnMarshalBinary ==
    \E c \in 1..3, a \in ContextParameters :
        ContextCall("UnMarshalBinary", c, NIL, NIL, a[1],
                    ContextUnMarshalBinary(ks.ctx[c], a[1], a[2]))

\* Merge of two contexts whose parameters were set.
CtxMerge ==
    \E c \in 1..3, q \in 1..3, p \in 1..3 :
        /\ ks.phase = "ring"
        /\ ks.ctx[q].set /\ ks.ctx[p].set
        /\ Len(ks.ctx[q].Modulus) + Len(ks.ctx[p].Modulus) <= MaxModuli
        /\ ContextCall("Merge", c, q, p, 0, ContextMerge(ks.ctx[c], ks.ctx[q], ks.ctx[p]))

NextContext == CtxSetParameters \/ CtxGenNTTParams \/ CtxUnMarshalBinary \/ CtxMerge

SpecContext == InitContext /\ [][NextContext]_vars

\* ------------------------------------------------------------------------
\* The Gaussian (Knuth-Yao) sampler: KYSampler.Sample
\* ------------------------------------------------------------------------

\* The largest magnitude (row of the probability matrix) kysampling returns.
MaxMagnitude == 1

\* The results of kysampling the random bytes can give: <<coeff, sign>>, coeff
\* a row of the matrix and sign one bit.
KYSamples == {<<v, sign>> : v \in 0..MaxMagnitude, sign \in {0, 1}}

\* The value Sample stores for the modulus qi:
\* (coeff & (sign * 0xFF..F)) | ((qi - coeff) & ((sign ^ 1) * 0xFF..F)).
\* coeff is below qi here, so qi - coeff does not wrap.
KYResidue(coeff, sign, qi) == IF sign = 1 THEN coeff ELSE qi - coeff

\* Pol: a new polynomial of the context; ks.i: the coefficient Sample is at.
InitSample ==
    /\ context = GenNTTParams
    /\ scheme = "ring"
    /\ mem = bfvMemory(bfvOperand(1, 1, FALSE), bfvOperand(2, 1, FALSE),
                       bfvOperand(3, 1, FALSE))
    /\ pre = [s \in Slots |-> mem[s]]
    /\ last = NoCall
    /\ calls = 0
    /\ cks = NoCKS
    /\ ks = [phase |-> "sample", i |-> 0,
             Pol |-> Table(Len(Moduli), LAMBDA j : Table(N, LAMBDA x : 0))]

\* One round of the loop of Sample: kysampling, then the store in every row.
SampleCoefficient ==
    /\ ks.phase = "sample"
    /\ ks.i < N
    /\ \E s \in KYSamples :
        /\ ks' = [ks EXCEPT !.i = @ + 1,
                            !.Pol = Table(Len(Moduli), LAMBDA j :
                                [ks.Pol[j] EXCEPT ![ks.i + 1] = KYResidue(s[1], s[2], Moduli[j])])]
        /\ last' = [op |-> "Sample", op0 |-> NIL, op1 |-> NIL, out |-> NIL, arg |-> s[1],
                    res |-> IF s[2] = 1 THEN "sign 1" ELSE "sign 0"]
    /\ UNCHANGED <<context, scheme, mem, pre, calls, cks>>

\* Sample returns.
SampleReturn ==
    /\ ks.phase = "sample"
    /\ ks.i = N
    /\ ks' = [ks EXCEPT !.phase = "sampled"]
    /\ UNCHANGED <<context, scheme, mem, pre, last, calls, cks>>

NextSample == SampleCoefficient \/ SampleReturn

SpecSample == InitSample /\ [][NextSample]_vars

\* ------------------------------------------------------------------------
\* Context.Equal
\* ------------------------------------------------------------------------

\* The largest multiple of q_i added to a coefficient of an argument.
MaxExcess == 2

\* The polynomials handed to Equal: polynomials of the context whose odd
\* coefficients carry u times q_i on top of a residue.
EqualPoly(a, u) ==
    Table(Len(Moduli), LAMBDA i :
        MakeRow(LAMBDA j : ((a * j + i) % Moduli[i]) + u * Moduli[i] * (j % 2)))

EqualPolys == {EqualPoly(a, u) : a \in 0..3, u \in 0..MaxExcess}

\* context.Reduce(p, p).
ContextReduce(p) == Table(Len(Moduli), LAMBDA i : ReduceRow(p[i], p[i], p[i], i))

\* Context.Equal(p1, p2): <<p1, p2, result>> when it returns.  The rows of
\* p1 and p2 are of the same length here; both are reduced in place, then
\* compared coefficient by coefficient.
ContextEqual(p1, p2) ==
    LET r1 == ContextReduce(p1)
        r2 == ContextReduce(p2)
    IN  <<r1, r2, \A i \in 1..Len(Moduli) : \A j \in 1..N : r1[i][j] = r2[i][j]>>

\* ks.p1, ks.p2: the two polynomials; ks.in1, ks.in2: they before the call.
InitEqual ==
    /\ context = GenNTTParams
    /\ scheme = "ring"
    /\ mem = bfvMemory(bfvOperand(1, 1, FALSE), bfvOperand(2, 1, FALSE),
                       bfvOperand(3, 1, FALSE))
    /\ pre = [s \in Slots |-> mem[s]]
    /\ last = NoCall
    /\ calls = 0
    /\ cks = NoCKS
    /\ \E p1 \in EqualPolys, p2 \in EqualPolys :
          ks = [phase |-> "equal", p1 |-> p1, p2 |-> p2, in1 |-> p1, in2 |-> p2]

EqualCall ==
    /\ ks.phase = "equal"
    /\ LET R == ContextEqual(ks.p1, ks.p2)
       IN  /\ ks' = [ks EXCEPT !.phase = "compared", !.p1 = R[1], !.p2 = R[2]]
           /\ last' = [op |-> "Equal", op0 |-> NIL, op1 |-> NIL, out |-> NIL, arg |-> 0,
                       res |-> IF R[3] THEN "true" ELSE "false"]
    /\ UNCHANGED <<context, scheme, mem, pre, calls, cks>>

NextEqual == EqualCall

SpecEqual == InitEqual /\ [][NextEqual]_vars

\* ------------------------------------------------------------------------
\* Properties of the evaluator calls
\* ------------------------------------------------------------------------

\* The outcome of the last call is an error returned to the caller.
Errored == last.res \notin {"none", "ok", "panic"}

Succeeded == last.res = "ok"

\* The last call is one of the binary operations of its scheme.
BinaryCall == last.op \in {"Add", "AddNoMod", "Sub", "SubNoMod", "Mul", "MulRelin"}

AdditiveCall == last.op \in {"Add", "AddNoMod", "Sub", "SubNoMod"}

\* The three operands of the last call are elements (none is nil).
AllElements == IsElement(last.op0) /\ IsElement(last.op1) /\ IsElement(last.out)

\* The degrees, levels and scales of the operands before the last call.
PreDegree(s) == Degree(pre[s])

PreLevel(s) == Level(pre[s])

\* C1: whenever an evaluator operation (Add, Sub, Mul/MulRelin, Relinearize,
\* SwitchKeys, RotateColumns, Rescale, of either scheme) returns an error,
\* the receiver is unchanged: its components (degree, rows, coefficients),
\* its scale and its isNTT flag are what they were before the call.
C1_ErrorLeavesReceiverUnchanged ==
    (/\ Errored
     /\ last.op \in {"Add", "AddNoMod", "Sub", "SubNoMod", "Mul", "MulRelin",
                     "Relinearize", "SwitchKeys", "RotateColumns", "Rescale"}
     /\ IsElement(last.out))
    => mem[last.out] = pre[last.out]

\* C2: a binary operation called with a nil first operand, a nil second
\* operand or a nil receiver returns the error "operands cannot be nil".
C2_NilOperandsAreReported ==
    (BinaryCall /\ ~AllElements) => last.res = "operands cannot be nil"

\* The minimum degree the last binary call requires of its receiver.
RequiredDegree ==
    IF scheme = "I" /\ last.op = "Mul"
    THEN Wrap(PreDegree(last.op0) + PreDegree(last.op1))
    ELSE Max2(PreDegree(last.op0), PreDegree(last.op1))

\* C3: a binary operation on three elements returns the error "receiver
\* operand degree is too small" exactly when the degree of the receiver is
\* lower than the minimum the operation requires: max(d0, d1) for the
\* additive family and MulRelin, d0 + d1 for Mul of Scheme-I.
C3_ReceiverDegreeCheck ==
    (BinaryCall /\ AllElements)
    => (last.res = "receiver operand degree is too small"
        <=> PreDegree(last.out) < RequiredDegree)

\* C3 happens: Mul of Scheme-I refuses a receiver whose degree is at least
\* max(d0, d1) but lower than d0 + d1.
C3_Witness ==
    /\ scheme = "I" /\ last.op = "Mul" /\ AllElements
    /\ PreDegree(last.out) >= Max2(PreDegree(last.op0), PreDegree(last.op1))
    /\ PreDegree(last.out) < RequiredDegree
    /\ last.res = "receiver operand degree is too small"

\* C4: after the operations of Scheme-A, every component of every
\* ciphertext has exactly level + 1 rows: the components have the same
\* number of rows, and the level is that number minus one.
C4_RowsAreLevelPlusOne ==
    (scheme = "A" /\ last.res # "panic")
    => \A s \in Slots : \A c \in 1..Len(mem[s].value) :
           Len(mem[s].value[c]) = Level(mem[s]) + 1

\* The last call is a successful Sub of two elements of different degrees
\* (in Scheme-A of the same scale: no operand is scaled up).
SubDegreesDiffer ==
    /\ last.op = "Sub" /\ Succeeded /\ AllElements
    /\ PreDegree(last.op0) # PreDegree(last.op1)
    /\ scheme = "A" => pre[last.op0].scale = pre[last.op1].scale

\* Row x of component c (above the smaller degree) of the difference: the
\* row of the minuend when it is the larger operand, the negation of the
\* row of the subtrahend when that one is.
SubTailRow(c, x) ==
    IF PreDegree(last.op0) > PreDegree(last.op1)
    THEN pre[last.op0].value[c][x]
    ELSE NegRow(pre[last.op1].value[c][x], <<>>, <<>>, x)

\* C8: after Sub of operands of different degrees, the components of the
\* result above the smaller degree are a copy of the tail of the larger
\* operand when it is the minuend and the negation of that tail when it is
\* the subtrahend, in both schemes.
C8_SubTailIsCopiedOrNegated ==
    SubDegreesDiffer
    => \A c \in (Min2(PreDegree(last.op0), PreDegree(last.op1)) + 2)
                ..(Max2(PreDegree(last.op0), PreDegree(last.op1)) + 1) :
           \A x \in 1..Len(mem[last.out].value[c]) :
               mem[last.out].value[c][x] = SubTailRow(c, x)

\* C9: after a successful Add, AddNoMod, Sub or SubNoMod the degree of the
\* receiver is max(degree(op0), degree(op1)) and, in Scheme-A, its scale is
\* max(scale(op0), scale(op1)), whatever the degree the receiver had when it
\* passed the degree check.
C9_AdditiveDegreeAndScale ==
    (AdditiveCall /\ Succeeded /\ AllElements)
    => /\ Degree(mem[last.out]) = Max2(PreDegree(last.op0), PreDegree(last.op1))
       /\ scheme = "A" => mem[last.out].scale =
                              Max2(pre[last.op0].scale, pre[last.op1].scale)

\* The smaller of the levels of the inputs of the last call.
MinInputLevel == Min2(PreLevel(last.op0), PreLevel(last.op1))

\* C10: after a successful binary operation of Scheme-A the level of the
\* receiver is min(level(op0), level(op1)) whenever the receiver started at
\* that level or above (every component then has that many rows plus one);
\* a receiver that starts at that minimum, level 0 included, meets no error
\* of the level drop and keeps its level.
C10_ReceiverLevelIsMinimum ==
    (scheme = "A" /\ BinaryCall /\ AllElements /\ PreLevel(last.out) >= MinInputLevel)
    => /\ last.res # "cannot drop level -> ciphertext already at level 0"
       /\ Succeeded =>
             /\ Level(mem[last.out]) = MinInputLevel
             /\ \A c \in 1..Len(mem[last.out].value) :
                   Len(mem[last.out].value[c]) = MinInputLevel + 1
       /\ (PreLevel(last.out) = MinInputLevel /\ last.res # "panic")
          => Level(mem[last.out]) = PreLevel(last.out)

\* C10 happens: a receiver above the minimum is lowered by two levels.
C10_Witness ==
    /\ scheme = "A" /\ BinaryCall /\ AllElements /\ Succeeded
    /\ PreLevel(last.out) = MinInputLevel + 2
    /\ Level(mem[last.out]) = MinInputLevel

\* C10 happens: a receiver at level 0, which is the minimum.
C10_WitnessLevelZero ==
    /\ scheme = "A" /\ BinaryCall /\ AllElements /\ Succeeded
    /\ PreLevel(last.out) = 0 /\ MinInputLevel = 0
    /\ last.out \notin {last.op0, last.op1}

\* The factor the alignment of the scales gives the operand of slot s in the
\* last call: 2^(larger scale - its own scale).
ScaleUp(s) ==
    2 ^ (Max2(pre[last.op0].scale, pre[last.op1].scale) - pre[s].scale)

\* Residue j of row x of component c of the operand of slot s before the
\* last call, multiplied by the factor of the alignment.
Aligned(s, c, x, j) == pre[s].value[c][x][j] * ScaleUp(s)

\* The last call is an additive call of Scheme-A on two ciphertexts of degree
\* 1 and a receiver of degree at least 1, all at the same level, the two
\* inputs having different scales.
DifferentScalesCall ==
    /\ scheme = "A" /\ AdditiveCall /\ AllElements
    /\ pre[last.op0].scale # pre[last.op1].scale
    /\ PreDegree(last.op0) = 1 /\ PreDegree(last.op1) = 1 /\ PreDegree(last.out) >= 1
    /\ PreLevel(last.op0) = PreLevel(last.op1) /\ PreLevel(last.out) = PreLevel(last.op0)

\* The receiver of the last call holds, modulo each modulus, the sum (Add,
\* AddNoMod) or the difference (Sub, SubNoMod) of the aligned inputs.
CombinesAligned ==
    \A c \in 1..2 : \A x \in 1..(PreLevel(last.out) + 1) : \A j \in 1..N :
        (IF last.op \in {"Add", "AddNoMod"}
         THEN mem[last.out].value[c][x][j]
              - (Aligned(last.op0, c, x, j) + Aligned(last.op1, c, x, j))
         ELSE (mem[last.out].value[c][x][j] + Aligned(last.op1, c, x, j))
              - Aligned(last.op0, c, x, j)) % Moduli[x] = 0

\* C11: an additive operation of Scheme-A on operands of different scales
\* completes without failure, and combines the inputs after the one of
\* smaller scale was multiplied by 2^(difference of the scales); this in
\* every aliasing configuration (the receiver is op0, is op1, is neither)
\* and whichever input has the larger scale.
C11_ScalesAlignedBeforeCombining ==
    DifferentScalesCall => (Succeeded /\ CombinesAligned)

\* The last call is a Mul of Scheme-I on elements that are not both
\* plaintexts, with a receiver of degree at least d0 + d1.
MulCall ==
    /\ scheme = "I" /\ last.op = "Mul" /\ AllElements
    /\ PreDegree(last.op0) + PreDegree(last.op1) > 0
    /\ PreDegree(last.out) >= PreDegree(last.op0) + PreDegree(last.op1)

\* C12: Mul of Scheme-I on operands of degrees d0 and d1 succeeds and leaves
\* a receiver of degree exactly d0 + d1 (no implicit relinearization, and no
\* component beyond d0 + d1), for every receiver whose degree was at least
\* d0 + d1 before the call.
C12_MulDegreeIsSum ==
    MulCall => (/\ Succeeded
                /\ Degree(mem[last.out]) = PreDegree(last.op0) + PreDegree(last.op1))

\* The last call is a successful MulRelin of Scheme-A.
MulRelinDone == scheme = "A" /\ last.op = "MulRelin" /\ AllElements /\ Succeeded

\* C13: after MulRelin of Scheme-A the scale of the receiver is
\* scale(op0) + scale(op1) (ciphertext by ciphertext, with or without a key,
\* and ciphertext by plaintext); the product of two ciphertexts of degree 1
\* leaves the receiver at degree 1 when a relinearization key is given
\* (last.arg = 1) and at degree 2 when the key is nil.
C13_MulRelinDegreeAndScale ==
    MulRelinDone =>
        /\ mem[last.out].scale = pre[last.op0].scale + pre[last.op1].scale
        /\ (PreDegree(last.op0) = 1 /\ PreDegree(last.op1) = 1)
           => Degree(mem[last.out]) = (IF last.arg = 1 THEN 1 ELSE 2)

\* What the key switch of the polynomial c2 (its rows in the coefficient
\* domain) with the key adds to the accumulator h (0 or 1), on row x of a
\* context of nr moduli: the sum over the moduli i and the digits j of
\* key[i][j][h] * NTT(digit j of row i of c2), modulo q_x.
KeySwitchSum(c2, key, nr, h, x) ==
    LET sched == DigitSchedule(key, nr)
        sum[r \in 0..Len(sched)] ==
            IF r = 0 THEN ZeroRow
            ELSE LET i == sched[r][1]
                     j == sched[r][2]
                     w == NTTRow(MakeRow(LAMBDA u : DigitOf(c2[i][u + 1], j, key.bitDecomp)),
                                 <<>>, <<>>, x)
                     k == key.evakey[i][j + 1][h + 1][x]
                     s == sum[r - 1]
                 IN  MakeRow(LAMBDA u :
                         (s[u + 1] + MRed(k[u + 1], w[u + 1], Moduli[x])) % Moduli[x])
    IN  sum[Len(sched)]

\* The sum of two rows modulo q_x.
RowSum(a, b, x) == MakeRow(LAMBDA u : (a[u + 1] + b[u + 1]) % Moduli[x])

\* The last call is a Relinearize of an input of degree d >= 2 with a key
\* that carries the switching keys for s^2..s^d, on a receiver of degree at
\* least 1 (of Scheme-A: d = 2, the only key its evaluation key carries, and
\* a receiver at the level of the input).  The input and the receiver are at
\* a level of the chain, as encryption and the evaluator's own results are
\* (an element emptied of all its rows by DropLevel has no level).
RelinearizeCall ==
    /\ last.op = "Relinearize"
    /\ PreDegree(last.op0) >= 2 /\ PreDegree(last.out) >= 1
    /\ HasContext(PreLevel(last.op0)) /\ HasContext(PreLevel(last.out))
    /\ scheme = "I" => last.arg >= PreDegree(last.op0)
    /\ scheme = "A" => (PreDegree(last.op0) = 2 /\ PreLevel(last.out) = PreLevel(last.op0))

\* Scheme-I: component h of the receiver, in the NTT domain, is component h
\* of the input plus what the key switch of each component deg = 2..d with
\* the key for s^deg adds.
bfvRelinearized(h, x) ==
    LET d == PreDegree(last.op0)
        acc[deg \in 1..d] ==
            IF deg = 1 THEN NTTRow(pre[last.op0].value[h + 1][x], <<>>, <<>>, x)
            ELSE RowSum(acc[deg - 1],
                        KeySwitchSum(pre[last.op0].value[deg + 1],
                                     EvaluationKey(last.arg)[deg - 1], QRows, h, x), x)
    IN  NTTRow(mem[last.out].value[h + 1][x], <<>>, <<>>, x) = acc[d]

\* Scheme-A: component h of the receiver is component h of the input plus
\* what the key switch of component 2 adds (both in the NTT domain).
ckksRelinearized(h, x) ==
    LET nr == PreLevel(last.op0) + 1
        c2 == Table(nr, LAMBDA i : InvNTTRow(pre[last.op0].value[3][i], <<>>, <<>>, i))
    IN  mem[last.out].value[h + 1][x]
            = RowSum(pre[last.op0].value[h + 1][x], KeySwitchSum(c2, RelinKey, nr, h, x), x)

RescaleGoesOn ==
    /\ Level(mem[last.out]) > 0
    /\ mem[last.out].scale >= ScaleChain[Level(mem[last.out]) + 1] + LogScale

\* The same with "exceeds" read strictly.
RescaleGoesOnStrict ==
    /\ Level(mem[last.out]) > 0
    /\ mem[last.out].scale > ScaleChain[Level(mem[last.out]) + 1] + LogScale

\* The step from the test of the loop is one iteration: the level of the
\* receiver goes down by one, every component loses its top row, the scale
\* loses the size of the removed modulus and the running product is divided
\* by it.
RescaleIterated ==
    /\ ks'.phase = "loop" /\ ks'.steps = ks.steps + 1
    /\ Level(mem'[last.out]) = Level(mem[last.out]) - 1
    /\ Len(mem'[last.out].value) = Len(mem[last.out].value)
    /\ \A c \in 1..Len(mem[last.out].value) :
           Len(mem'[last.out].value[c]) = Len(mem[last.out].value[c]) - 1
    /\ mem'[last.out].scale = mem[last.out].scale - ScaleChain[Level(mem[last.out]) + 1]
    /\ mem'[last.out].currentModulus * Moduli[Level(mem[last.out]) + 1]
           = mem[last.out].currentModulus

\* The step from the test of the loop is the return: nothing is rescaled.
RescaleReturned == ks'.phase = "done" /\ last'.res = "ok" /\ mem' = mem

\* No level of a caller's ciphertext has gone below 0 (no component has lost
\* its last row).
LevelsNotBelowZero ==
    \A s \in Slots : \A c \in 1..Len(mem[s].value) : Len(mem[s].value[c]) >= 1

\* The loop of the Rescale in progress has made as many iterations as the
\* receiver has lost levels: the iterations are bounded by the level the
\* call started at.
RescaleVariant == ks.steps + Level(mem[last.out]) = PreLevel(last.op0)

C16_NonNTTInputIsRefused ==
    (last.op = "Rescale" /\ ks.phase = "done" /\ ~pre[last.op0].isNTT)
    => (Errored /\ mem[last.out] = pre[last.out])

\* C17: Rescale called on an input at level 0 returns the error "cannot
\* rescale -> input ciphertext already at level 0" and changes neither the
\* input nor the receiver.
C17_LevelZeroInputIsRefused ==
    (last.op = "Rescale" /\ PreLevel(last.op0) = 0)
    => /\ last.res = "cannot rescale -> input ciphertext already at level 0"
       /\ \A s \in Slots : mem[s] = pre[s]

\* C17 happens: the input is at level 0 and the receiver is another
\* ciphertext, at a higher level.
C17_Witness ==
    /\ last.op = "Rescale" /\ PreLevel(last.op0) = 0
    /\ last.out # last.op0 /\ PreLevel(last.out) > 0
    /\ last.res = "cannot rescale -> input ciphertext already at level 0"

\* The last call is DropLevel(ct, k) with 0 <= k <= level(ct).
DropLevelCall ==
    /\ last.op = "DropLevel"
    /\ last.arg <= PreLevel(last.op0)

\* The ciphertext is its former self without its top k rows: every
\* component keeps its first level + 1 - k rows, the running modulus product
\* is the product of the moduli that remain, scale and domain are kept.
TopRowsDropped(k) ==
    LET was == pre[last.op0]
        now == mem[last.op0]
    IN  /\ Degree(now) = Degree(was)
        /\ Level(now) = Level(was) - k
        /\ \A c \in 1..Len(was.value) :
              now.value[c] = SubSeq(was.value[c], 1, Level(was) + 1 - k)
        /\ now.currentModulus = ModulusBigint(Level(was) - k)
        /\ now.scale = was.scale /\ now.isNTT = was.isNTT

\* C18: DropLevel(ct, k) with 0 <= k <= level(ct) succeeds, removes exactly
\* the top k rows of every component of ct and leaves the running modulus
\* product equal to the product of the remaining moduli; with k = 0 it is
\* a successful no-op at every level, level 0 included.
C18_DropLevelRemovesTopRows ==
    DropLevelCall => (Succeeded /\ TopRowsDropped(last.arg))

\* The last call is RotateColumns of operands of degree 1 by an amount that
\* is not 0 modulo N/2, with a table that has neither the key of that
\* rotation nor the left and right keys of every power of two.
RotateWithoutKeys ==
    /\ last.op = "RotateColumns"
    /\ last.arg % (N \div 2) # 0
    /\ PreDegree(last.op0) = 1 /\ PreDegree(last.out) = 1
    /\ (last.arg % (N \div 2)) \notin ks.evakey.left
    /\ \E i \in Pow2Rotations : i \notin ks.evakey.left \/ i \notin ks.evakey.right

\* C19: RotateColumns by an amount for which the key table has no specific
\* key and does not hold the complete power-of-two key set (left and right)
\* returns the error "cannot rotate -> specific rotation and pow2 rotations
\* have not been generated" and leaves the receiver (and every other
\* ciphertext) unchanged, in both schemes.
C19_RotateWithoutKeysIsRefused ==
    RotateWithoutKeys
    => /\ last.res = "cannot rotate -> specific rotation and pow2 rotations have not been generated"
       /\ \A s \in Slots : mem[s] = pre[s]

\* C19 happens in Scheme-A with a table that has every left key of the
\* powers of two and no right key.
C19_Witness ==
    /\ RotateWithoutKeys
    /\ scheme = "A" /\ ks.evakey = RotationKeys({1, 2}, {})
    /\ last.out # last.op0
    /\ last.res = "cannot rotate -> specific rotation and pow2 rotations have not been generated"

\* C19 happens in Scheme-I with an empty table.
C19_WitnessSchemeI ==
    /\ RotateWithoutKeys
    /\ scheme = "I" /\ ks.evakey = RotationKeys({}, {})
    /\ last.res = "cannot rotate -> specific rotation and pow2 rotations have not been generated"

\* The set bits of m, as the powers of two they stand for.
SetBits(m) == {i \in 1..m : \E b \in 0..BitLen(m) : i = 2 ^ b /\ (m \div i) % 2 = 1}

\* C20: when RotateColumns falls back to the power-of-two keys for k
\* (reduced modulo N/2), it rotates to the left by k or to the right by
\* N/2 - k, whichever magnitude has the smaller Hamming weight; it makes
\* exactly one permute-and-key-switch per set bit of that magnitude, with
\* the key of that power of two; and the steps compose to the rotation by
\* k: the product of their Galois elements is gen^k modulo 2N.
C20_Pow2Fallback ==
    ks.route = "pow2" =>
        LET half == ks.n \div 2
            k == ks.k0 % half
        IN  /\ ks.dir = 0 => (ks.magnitude = k
                              /\ HammingWeight(k) <= HammingWeight(half - k))
            /\ ks.dir = 1 => (ks.magnitude = half - k
                              /\ HammingWeight(half - k) < HammingWeight(k))
            /\ ks.steps + HammingWeight(ks.k) = HammingWeight(ks.magnitude)
            /\ Cardinality(ks.used) = ks.steps
            /\ ks.used \subseteq (IF ks.dir = 0 THEN ks.evakey.left ELSE ks.evakey.right)
            /\ ks.phase = "done" =>
                  /\ ks.steps = HammingWeight(ks.magnitude)
                  /\ ks.used = SetBits(ks.magnitude)
                  /\ ks.galEl = ModExp(GaloisGen, k, 2 * ks.n)

\* C20 happens: a rotation made to the right (the smaller weight) in two
\* steps, and one made to the left in two steps.
C20_Witness ==
    /\ ks.route = "pow2" /\ ks.phase = "done"
    /\ ks.dir = 1 /\ ks.steps = 2

C20_WitnessLeft ==
    /\ ks.route = "pow2" /\ ks.phase = "done"
    /\ ks.dir = 0 /\ ks.steps = 2 /\ ks.magnitude # (ks.n \div 2) - ks.magnitude

\* ------------------------------------------------------------------------
\* Properties of the key switch loop and of Aggregate
\* ------------------------------------------------------------------------

\* Every residue of the first nr rows of p is in [0, q_i).
CanonicalPoly(p, nr) ==
    \A x \in 1..nr : \A u \in 1..N : p[x][u] >= 0 /\ p[x][u] < Moduli[x]

KSDone == scheme \in {"A", "I"} /\ ks.phase = "done" /\ "reduce" \in DOMAIN ks

KSRunning == scheme \in {"A", "I"} /\ ks.phase \in {"loop", "done"} /\ "reduce" \in DOMAIN ks

C5_WitnessEight == KSDone /\ ks.reduce = 8 /\ ks.finals = 0

C5_WitnessZero == KSDone /\ ks.reduce = 0 /\ ks.finals = 0

C5_WitnessSeven == KSDone /\ ks.reduce = 7 /\ ks.finals = 1 /\ ks.reductions = 0

C5_WitnessSixteen == KSDone /\ ks.reduce = 16 /\ ks.finals = 0 /\ ks.reductions = 2

\* C6: in the loop of the key switch both accumulators are reduced after
\* every 8th accumulation, so no accumulator receives more than 8
\* accumulations in a row without a reduction, and at the end one final
\* reduction is made exactly when the last accumulation was not followed by
\* a reduction.
C6_ReduceEveryEighth ==
    KSRunning =>
        /\ ks.longest <= 8
        /\ ks.reductions = ks.reduce \div 8
        /\ ks.phase = "loop" => ks.pending = ks.reduce % 8
        /\ ks.phase = "done" =>
              /\ ks.finals \in {0, 1}
              /\ ks.finals = 1 <=> (ks.reduce > 0 /\ ~ReducePoint(ks.reduce - 1))
              /\ ks.pending = 0

C6_Witness == KSDone /\ ks.longest = 8 /\ ks.reduce = 12 /\ ks.finals = 1

C6_WitnessNoFinal == KSDone /\ ks.longest = 8 /\ ks.reduce = 8 /\ ks.finals = 0

\* The canonical sum of c0 and of the shares h_1..h_n.
AggregateSum(c0, h) ==
    LET RECURSIVE Sum(_, _, _)
        Sum(n, x, j) == IF n = 0 THEN c0[x][j + 1]
                        ELSE (Sum(n - 1, x, j) + ShareCoeff(h[n], x, j)) % Moduli[x]
    IN  Table(QRows, LAMBDA x : MakeRow(LAMBDA j : Sum(Len(h), x, j)))

AggregateDone == scheme = "I" /\ cks.phase = "done"

\* C7: after Aggregate over n >= 1 shares, every row i of c0 holds the
\* canonical representative of (c0 + h_1 + ... + h_n) mod q_i, and c0 never
\* receives more than 8 additions in a row without a reduction.
C7_AggregateIsCanonicalSum ==
    /\ AggregateDone => cks.c0 = AggregateSum(cks.start, cks.h)
    /\ cks.phase # "off" => cks.longest <= 8

\* The evaluator's memory before the call of the step-level rotation: the
\* caller's elements as they were, and the pools as NewEvaluator leaves them.
PreMemory ==
    IF scheme = "A" THEN ckksMemory(pre[1], pre[2], pre[3])
    ELSE bfvMemory(pre[1], pre[2], pre[3])

\* One permute-and-key-switch of the input with the key of the left
\* rotation by k, from the memory before the call.
RotatedWithKey(k) ==
    IF scheme = "A"
    THEN permuteNTT([mem |-> PreMemory, err |-> ""], last.op0, GalElRotColLeft(k),
                    RotationKey(0, k), last.out)
    ELSE permute([mem |-> PreMemory, err |-> ""], last.op0, pre[last.op0].isNTT,
                 GalElRotColLeft(k), RotationKey(0, k), last.out)

RotateCall == last.op = "RotateColumns" /\ scheme \in {"A", "I"} /\ "evakey" \in DOMAIN ks

\* Both operands are of degree 1, the receiver at the level of the input.
RotateDegreesOne ==
    /\ PreDegree(last.op0) = 1 /\ PreDegree(last.out) = 1
    /\ PreLevel(last.op0) = PreLevel(last.out)

RotateDegreeNotOne == PreDegree(last.op0) # 1 \/ PreDegree(last.out) # 1

\* The paths of C21: the reduced k is 0, or the table has its key.
RotateCopyPath == RotateCall /\ last.arg % (N \div 2) = 0

RotateKeyPath ==
    RotateCall /\ last.arg % (N \div 2) # 0 /\ (last.arg % (N \div 2)) \in ks.evakey.left

\* The receiver is unchanged and the call returned the error of the degrees.
RefusedForDegree ==
    /\ Errored
    /\ last.res \in {"cannot rotate -> input and output ciphertext must be of degree 1",
                     "cannot rotate -> input and or output must be of degree 1"}
    /\ \A s \in Slots : mem[s] = pre[s]

\* C21: RotateColumns reduces k modulo N/2 before dispatch; when the reduced
\* k is 0 the receiver becomes a copy of the input; when the table has the
\* key of the reduced k, one permute-and-key-switch with that key is applied,
\* also when the power-of-two keys are there; and on both paths operands
\* whose degree is not 1 are refused.
C21_RotateDispatch ==
    /\ (RotateCopyPath /\ RotateDegreesOne)
       => (Succeeded /\ mem[last.out].value = pre[last.op0].value)
    /\ (RotateKeyPath /\ RotateDegreesOne)
       => (Succeeded
           /\ mem[last.out] = RotatedWithKey(last.arg % (N \div 2)).mem[last.out])
    /\ ((RotateCopyPath \/ RotateKeyPath) /\ RotateDegreeNotOne) => RefusedForDegree

ScratchDone == ks.phase = "done" /\ "fresh" \in DOMAIN ks

\* The second call gave what it gives on an evaluator just made.
SameAsFresh ==
    /\ last.res = ks.fresh.res
    /\ \A s \in Slots : mem[s] = ks.fresh.mem[s]

\* The calls of C22: rotation, key switch, relinearization.
KeyedCall == last.op \in {"RotateColumns", "SwitchKeys", "Relinearize"}

RowBelow(a, bound) == \A j \in 1..N : a[j] >= 0 /\ a[j] < bound

NTTRun == "ntt" \in DOMAIN ks

\* C24: InvNTT(NTT(p)) is p in every row of every context that allows the
\* NTT, for p with residues in [0, q_i), and both transforms return
\* residues in [0, q_i).
C24_NTTRoundTrip ==
    NTTRun =>
        /\ ks.phase \in {"ntt", "inv", "done"} => RowBelow(ks.ntt, Moduli[ks.x])
        /\ ks.phase = "done" => (ks.a = ks.p /\ RowBelow(ks.a, Moduli[ks.x]))

C24_Witness ==
    /\ NTTRun /\ ks.phase = "done" /\ ks.a = ks.p /\ ks.ntt # ks.p
    /\ \E j \in 1..N : ks.p[j] = Moduli[ks.x] - 1

\* C25: in the NTT of a row with residues in [0, q_i), every value written
\* by a butterfly is below 2 q_i at every stage, and the final pass leaves
\* every output in [0, q_i).
C25_ButterfliesBelowTwoQ ==
    NTTRun =>
        /\ ks.phase = "fwd" => RowBelow(ks.a, 2 * Moduli[ks.x])
        /\ ks.phase = "ntt" => RowBelow(ks.a, Moduli[ks.x])

ContextRun == scheme = "ring" /\ ks.phase = "ring"

\* The context c passes the test of GenNTTParams for its current N and
\* moduli, and its NTT tables were made for exactly them.
NTTReady(c) ==
    /\ \A i \in 1..Len(c.Modulus) : AllowsNTTModulus(c.N, c.Modulus[i])
    /\ c.ntt = Table(Len(c.Modulus), LAMBDA i : <<c.N, c.Modulus[i]>>)

\* C26: after any sequence of SetParameters, GenNTTParams, Merge and
\* UnMarshalBinary, AllowsNTT() is true only if the current N and every
\* current modulus passed the test (prime, 1 modulo 2N) and the NTT tables
\* are those of exactly these parameters.
C26_AllowsNTTIsSound ==
    (ContextRun /\ last.res # "panic") =>
        \A c \in 1..3 : ks.ctx[c].allowsNTT => NTTReady(ks.ctx[c])

\* C29: when Merge returns an error, the target context is as it was before
\* the call.
C29_FailedMergeLeavesTarget ==
    (ContextRun /\ last.op = "Merge" /\ Errored) => ks.ctx[last.op0] = ks.before[last.op0]

\* C27: every residue the Gaussian sampler has written is in [0, q_i), for
\* every magnitude, 0 included, and both values of the sign bit.
C27_SampledResiduesCanonical ==
    (scheme = "ring" /\ ks.phase \in {"sample", "sampled"}) =>
        \A j \in 1..Len(Moduli) : \A x \in 1..ks.i : ks.Pol[j][x] \in 0..(Moduli[j] - 1)

\* C28: Scheme-A DropLevel(ct, k) with k greater than the level of ct returns
\* an error and leaves the ciphertext unchanged: it does not abort on an
\* out-of-range slice and does not leave ct with rows or a modulus product
\* that disagree with its level.
C28_DropLevelBeyondLevelIsRefused ==
    (scheme = "A" /\ last.op = "DropLevel" /\ last.arg > PreLevel(last.op0)) =>
        (Errored /\ mem[last.op0] = pre[last.op0])

\* Equal has returned.
Compared == scheme = "ring" /\ ks.phase = "compared"

\* The two arguments, as handed to Equal, are congruent row by row.
Congruent ==
    \A i \in 1..Len(Moduli) : \A j \in 1..N :
        ks.in1[i][j] % Moduli[i] = ks.in2[i][j] % Moduli[i]

\* C30: Context.Equal(p1, p2) is a pure comparison: it returns true exactly
\* when the two polynomials are congruent row by row modulo each q_i, and the
\* coefficients of both arguments are what they were before the call.
C30_EqualIsPure ==
    Compared => /\ (last.res = "true") <=> Congruent
                /\ ks.p1 = ks.in1 /\ ks.p2 = ks.in2

====
